---- MODULE Spec2Model ----
(***************************************************************************)
(* Resource-aware orchestration core of the WhatsApp assistant:            *)
(* budget ladder, quick-response router, session store with debounced      *)
(* persistence, and the background tick driver.                            *)
(*                                                                         *)
(* Sources: src/src/lizard-brain.ts (ladder, router, tick driver) and      *)
(* src/src/index.ts (session store, chat, message handler).                *)
(***************************************************************************)
EXTENDS Integers, Sequences, FiniteSets, TLC

(***************************************************************************)
(* Bounds of the model                                                     *)
(***************************************************************************)
\* largest daily budget drawn for the ladder probes
MaxBudget == 20
\* largest usage drawn for the ladder probes
MaxUsed == 22
\* inbound messages per behaviour
MaxMessages == 2
\* sessions the cache holds (20 in index.ts; scaled down)
MAX_CACHED_SESSIONS == 2
\* CONFIG.maxHistory of the session store runs (50 by default)
SessionMaxHistory == 1
\* appends to one conversation between two clears
MaxAppends == 2
\* the clock runs from 0 to MaxClockSteps * ClockStep
MaxClockSteps == 1
\* flush timers outstanding at once
MaxTimers == 2
\* firings of the tick timer
MaxTicks == 3
\* calls of startLizardLoop (one per connection that opens)
MaxStarts == 2
\* CONFIG.maxHistory of the message handling runs (50 by default)
PipelineMaxHistory == 4
\* follow-up provider calls of the tool-use loop within one reply
MaxToolRounds == 1
\* updateMemoryIfNeeded: facts every FACTS_EVERY messages (10 in index.ts),
\* a summary above SUMMARY_ABOVE messages (30) that keeps the last
\* SUMMARY_KEEP (20) and needs more than SUMMARY_MIN new ones (10)
FACTS_EVERY == 2
SUMMARY_ABOVE == 3
SUMMARY_KEEP == 2
SUMMARY_MIN == 1
\* the retry-after header of a rate-limit failure, in seconds
RetryAfterSeconds == 30

VARIABLES
  \* ---- configuration (CONFIG / _config) ----
  config,        \* [model, maxTokens, maxHistory]
  \* ---- lizardBrain.tokens ----
  used,          \* lizardBrain.tokens.used
  budget,        \* lizardBrain.tokens.budget
  \* ---- result of the last getBudgetAwareParams() call ----
  params,        \* the BudgetAwareParams record returned
  tier,          \* which return statement of the ladder was taken
  \* ---- lizardBrain mood registers ----
  energy, stress, curiosity,
  \* ---- lizardBrain.proactive.pendingReminders ----
  pendingReminders,
  \* ---- lizardBrain.lastResponses (a Map, in insertion order) ----
  lastResponses,
  \* ---- Date.now(), in milliseconds ----
  now,
  \* ---- status.messagesReceived ----
  messagesReceived,
  \* ---- result of the last tryQuickResponse() call ----
  qr,            \* the string returned, <<>> for null
  ran,           \* the pattern handlers the call invoked, in order
  \* ---- session store (index.ts) ----
  sessions,      \* the cache: Map chatId -> Session, in insertion order
  disk,          \* the session files: chatId -> <<>> or <<session>>
  pendingSaves,  \* Set of chatIds with a flush scheduled
  timers,        \* the setTimeout callbacks of saveSession, oldest first
  loaded,        \* the session the last loadSession() returned
  \* ---- history: the messages appended to each chat since its last clear ----
  appended,
  \* ---- tick driver (lizard-brain.ts) ----
  driver,        \* [interval: _loopInterval (0 for null), started, onTick, onCleanup]
  intervals,     \* the setInterval timers that are registered
  ticks,         \* the runLizardLoop() executions suspended at an await
  resetAt,       \* lizardBrain.tokens.resetAt
  delivered,     \* history: the reminder sends attempted, in order
  \* ---- message handling (index.ts) ----
  keys,          \* [api: CONFIG.apiKey is set, tavily: CONFIG.tavilyApiKey is set]
  inflight,      \* the handler executions suspended at an await
  apiErrors,     \* lizardBrain.resources.apiErrors
  rateLimitResetAt, \* lizardBrain.resources.rateLimit.resetAt (0 for null)
  idleSince,     \* lizardBrain.proactive.idleSince
  providerCalls, \* history: number of client.messages.create calls started
  reply,         \* the response the last handler step decided on (<<>> for none)
  memory,        \* the memory files: chatId -> summaryUpTo
  \* ---- calendar (calendar.ts) and the clock's time zone ----
  zone,          \* process.env.TZ: [offset, shiftAt, shift] in milliseconds
  calendar,      \* calendar.json: <<>> when absent, else <<CalendarData>>
  digestsSent,   \* history: the digests sent, [jid, kind, at]
  pendingContactTag, \* Map chatId -> [eventId, expiresAt], in insertion order
  collected,     \* the calendar.ts call of a probe: arguments and result
  digests,       \* the processCalendarDigests() executions suspended at a send
  \* ---- which operation ran last, with its arguments ----
  op

vars == <<config, used, budget, params, tier, energy, stress, curiosity,
          pendingReminders, lastResponses, now, messagesReceived, qr, ran,
          sessions, disk, pendingSaves, timers, loaded, appended,
          driver, intervals, ticks, resetAt, delivered,
          keys, inflight, apiErrors, rateLimitResetAt, idleSince,
          providerCalls, reply, memory,
          zone, calendar, digestsSent, pendingContactTag, collected, digests,
          op>>

ladderVars == <<config, used, budget, params, tier>>
moodVars == <<energy, stress, curiosity>>
routerVars == <<pendingReminders, lastResponses, messagesReceived, qr, ran>>
storeVars == <<sessions, disk, pendingSaves, timers, loaded, appended>>
tickVars == <<driver, intervals, ticks, resetAt, delivered>>
pipeVars == <<keys, inflight, apiErrors, rateLimitResetAt, idleSince,
              providerCalls, reply, memory>>
calVars == <<zone, calendar, digestsSent, pendingContactTag, collected, digests>>

(***************************************************************************)
(* Configuration                                                           *)
(***************************************************************************)
DefaultModel == "claude-sonnet-4-20250514"
HaikuModel == "claude-3-haiku-20240307"

\* CONFIG as read from the environment: the defaults, and two overrides
Configs ==
  { [model |-> DefaultModel, maxTokens |-> 4096, maxHistory |-> 50],
    [model |-> HaikuModel,   maxTokens |-> 256,  maxHistory |-> 8],
    [model |-> DefaultModel, maxTokens |-> 2048, maxHistory |-> 15] }

(***************************************************************************)
(* Budget ladder                                                           *)
(***************************************************************************)
\* usage >= num/den for usage = u / b in IEEE arithmetic, u >= 0:
\* b > 0 is the exact comparison (the thresholds 0.5, 0.75, 1.0 are exact
\* doubles and u/b = 9/10 rounds to the literal 0.9); u/0 is Infinity for
\* u > 0 and NaN for u = 0; u/b <= 0 for b < 0.
UsageAtLeast(u, b, num, den) ==
  IF b > 0 THEN u * den >= num * b
  ELSE IF b = 0 THEN u > 0
  ELSE FALSE

\* the branch of getBudgetAwareParams taken for used u and budget b
SelectedTierEqBug(u, b) ==
  IF u = b THEN "blocked"
  ELSE IF UsageAtLeast(u, b, 9, 10) THEN "t90"
  ELSE IF UsageAtLeast(u, b, 3, 4) THEN "t75"
  ELSE IF UsageAtLeast(u, b, 1, 2) THEN "t50"
  ELSE "normal"

SelectedTierStrictBug(u, b) ==
  IF UsageAtLeast(u, b, 1, 1) THEN "blocked"
  ELSE IF UsageAtLeast(u, b, 9, 10) THEN "t90"
  ELSE IF UsageAtLeast(u, b, 3, 4) /\ ~ (u * 4 = 3 * b) THEN "t75"
  ELSE IF UsageAtLeast(u, b, 1, 2) THEN "t50"
  ELSE "normal"

SelectedTierOffByOne(u, b) ==
  IF UsageAtLeast(u + 1, b, 1, 1) THEN "blocked"
  ELSE IF UsageAtLeast(u, b, 9, 10) THEN "t90"
  ELSE IF UsageAtLeast(u, b, 3, 4) THEN "t75"
  ELSE IF UsageAtLeast(u, b, 1, 2) THEN "t50"
  ELSE "normal"

SelectedTier(u, b) ==
  IF UsageAtLeast(u, b, 1, 1) THEN "blocked"
  ELSE IF UsageAtLeast(u, b, 9, 10) THEN "t90"
  ELSE IF UsageAtLeast(u, b, 3, 4) THEN "t75"
  ELSE IF UsageAtLeast(u, b, 1, 2) THEN "t50"
  ELSE "normal"

\* the record each return statement builds
TierParams(t, cfg) ==
  CASE t = "blocked" ->
         [model |-> cfg.model, maxTokens |-> cfg.maxTokens,
          maxHistory |-> cfg.maxHistory, shouldBlock |-> TRUE]
    [] t = "t90" ->
         [model |-> HaikuModel, maxTokens |-> 500,
          maxHistory |-> 5, shouldBlock |-> FALSE]
    [] t = "t75" ->
         [model |-> cfg.model, maxTokens |-> 1024,
          maxHistory |-> 10, shouldBlock |-> FALSE]
    [] t = "t50" ->
         [model |-> cfg.model, maxTokens |-> cfg.maxTokens,
          maxHistory |-> 20, shouldBlock |-> FALSE]
    [] OTHER ->
         [model |-> cfg.model, maxTokens |-> cfg.maxTokens,
          maxHistory |-> cfg.maxHistory, shouldBlock |-> FALSE]

getBudgetAwareParams(u, b, cfg) == TierParams(SelectedTier(u, b), cfg)

NoParams == [model |-> "", maxTokens |-> 0, maxHistory |-> 0, shouldBlock |-> FALSE]

(***************************************************************************)
(* Quick-response router                                                   *)
(***************************************************************************)
ChatIds == {1, 2}

GREETING_RESPONSES ==
  <<"Hey there!", "Hi! What's up?", "Hello! How can I help?", "Hey!">>
THANKS_RESPONSES ==
  <<"You're welcome!", "No problem!", "Happy to help!", "Anytime!">>
HOW_ARE_YOU_RESPONSES ==
  [lowEnergy |-> <<"*yawn* A bit tired", "Running on low battery", "Feeling a bit sleepy">>,
   highStress |-> <<"Bit overwhelmed", "Been busy!", "A lot going on">>,
   highCuriosity |-> <<"Feeling curious", "Great! Been thinking", "Excited to chat!">>,
   normal |-> <<"Doing well!", "Good!", "All good here!">>]

\* A reply is a sequence of text pieces; null is the empty sequence.
NoAnswer == <<>>
ExhaustedMsg == <<"I've run out of thinking power for today.">>
LowMsg == <<"Running really low on thinking power...">>
BreathMsg == <<"Taking a breath...">>
NothingSaidMsg == <<"I haven't said anything yet in this conversation!">>

\* Math.random(), as the draws the model tells apart: pickRandom takes
\* arr[floor(random * length)], here arr[(rnd % length) + 1]; four draws
\* reach every element of the 3- and 4-element reply arrays.
RandomDraws == 0..3
pickRandom(arr, rnd) == arr[(rnd % Len(arr)) + 1]

getMoodAwareHowAreYou(e, s, c, rnd) ==
  IF e < 30 THEN pickRandom(HOW_ARE_YOU_RESPONSES.lowEnergy, rnd)
  ELSE IF s > 50 THEN pickRandom(HOW_ARE_YOU_RESPONSES.highStress, rnd)
  ELSE IF c > 80 THEN pickRandom(HOW_ARE_YOU_RESPONSES.highCuriosity, rnd)
  ELSE pickRandom(HOW_ARE_YOU_RESPONSES.normal, rnd)

\* The inbound texts of the model.
Texts ==
  { "hi!", "thank you", "what time is it", "what's today's date",
    "how are you", "huh?", "what time is it and how are you",
    "remind me in 5 min to call mom", "remind me in 2 hours to stretch",
    "remind me in 0 minutes to stand up",
    "how are you? remind me in 1 minute to rest",
    "remind me in 1 minute to rest",
    "remind me in 5 minutes to ask what time it is",
    "remind me in 5", "tell me a story" }

\* The quickPatterns entries (1 greeting, 2 thanks, 3 time, 4 date,
\* 5 how-are-you, 6 repeat, 7 reminder) one of whose regexes matches the text.
PatternCount == 7
Matches(text) ==
  CASE text = "hi!" -> {1}
    [] text = "thank you" -> {2}
    [] text = "what time is it" -> {3}
    [] text = "what's today's date" -> {4}
    [] text = "how are you" -> {5}
    [] text = "huh?" -> {6}
    [] text = "what time is it and how are you" -> {3, 5}
    [] text = "remind me in 5 min to call mom" -> {7}
    [] text = "remind me in 2 hours to stretch" -> {7}
    [] text = "remind me in 0 minutes to stand up" -> {7}
    [] text = "how are you? remind me in 1 minute to rest" -> {5, 7}
    [] text = "remind me in 1 minute to rest" -> {7}
    [] text = "remind me in 5 minutes to ask what time it is" -> {3, 7}
    [] text = "remind me in 5" -> {7}
    [] OTHER -> {}

\* What parseReminderTime's regex captures: amount, unit, task.
NoCapture == [ok |-> FALSE, amount |-> 0, unit |-> "", task |-> ""]
Capture(a, u, t) == [ok |-> TRUE, amount |-> a, unit |-> u, task |-> t]
ReminderCaptures(text) ==
  CASE text = "remind me in 5 min to call mom" -> Capture(5, "min", "call mom")
    [] text = "remind me in 2 hours to stretch" -> Capture(2, "hours", "stretch")
    [] text = "remind me in 0 minutes to stand up" -> Capture(0, "minutes", "stand up")
    [] text = "how are you? remind me in 1 minute to rest" -> Capture(1, "minute", "rest")
    [] text = "remind me in 1 minute to rest" -> Capture(1, "minute", "rest")
    [] text = "remind me in 5 minutes to ask what time it is" ->
         Capture(5, "minutes", "ask what time it is")
    [] OTHER -> NoCapture

\* unit.startsWith("h"), over the units the regex admits
StartsWithH(unit) == unit \in {"h", "hs", "hr", "hrs", "hou", "hous", "hour", "hours"}

NoParse == [ok |-> FALSE, minutes |-> 0, task |-> ""]
parseReminderTimeNoHours(text) ==
  LET m == ReminderCaptures(text) IN
  IF ~ m.ok THEN NoParse
  ELSE [ok |-> TRUE, minutes |-> m.amount, task |-> m.task]

parseReminderTime(text) ==
  LET m == ReminderCaptures(text) IN
  IF ~ m.ok THEN NoParse
  ELSE [ok |-> TRUE,
        minutes |-> IF StartsWithH(m.unit) THEN m.amount * 60 ELSE m.amount,
        task |-> m.task]

\* lizardBrain.lastResponses.get(chatId); the Map is a sequence of
\* [chatId, text] entries in insertion order, with at most one per chatId
MapHas(map, c) == \E i \in 1..Len(map) : map[i].chatId = c
MapGet(map, c) == map[CHOOSE i \in 1..Len(map) : map[i].chatId = c].text
\* Map.set: a present key keeps its place, a new key goes last
MapSet(map, c, t) ==
  IF MapHas(map, c)
  THEN [i \in 1..Len(map) |->
          IF map[i].chatId = c THEN [chatId |-> c, text |-> t] ELSE map[i]]
  ELSE Append(map, [chatId |-> c, text |-> t])

\* the time string of the reminder confirmation
TimeStr(minutes) ==
  IF minutes >= 60
  THEN <<ToString(minutes \div 60), IF minutes >= 120 THEN "hours" ELSE "hour">>
  ELSE <<ToString(minutes), IF minutes # 1 THEN "minutes" ELSE "minute">>

\* quickPatterns[p].response(chatId, match) in router state st (a record of
\* the lizardBrain fields it reads and writes): the reply and the reminder
\* queue afterwards
PatternResponse(p, st, chatId, text, rnd) ==
  CASE p = 1 -> [reply |-> <<pickRandom(GREETING_RESPONSES, rnd)>>,
                 reminders |-> st.reminders]
    [] p = 2 -> [reply |-> <<pickRandom(THANKS_RESPONSES, rnd)>>,
                 reminders |-> st.reminders]
    [] p = 3 -> [reply |-> <<"It's", "<time>">>, reminders |-> st.reminders]
    [] p = 4 -> [reply |-> <<"It's", "<date>">>, reminders |-> st.reminders]
    [] p = 5 -> [reply |-> <<getMoodAwareHowAreYou(st.energy, st.stress, st.curiosity, rnd)>>,
                 reminders |-> st.reminders]
    [] p = 6 -> [reply |-> IF MapHas(st.lastResponses, chatId)
                                /\ MapGet(st.lastResponses, chatId) # <<>>
                           THEN <<"I said:">> \o MapGet(st.lastResponses, chatId)
                           ELSE NothingSaidMsg,
                 reminders |-> st.reminders]
    [] OTHER ->
         LET parsed == parseReminderTime(text) IN
         IF ~ parsed.ok THEN [reply |-> NoAnswer, reminders |-> st.reminders]
         ELSE [reply |-> <<"Got it! I'll remind you in">> \o TimeStr(parsed.minutes)
                           \o <<"to:", parsed.task>>,
               reminders |-> Append(st.reminders,
                               [chatId |-> chatId, message |-> parsed.task,
                                dueAt |-> st.now + parsed.minutes * 60 * 1000,
                                setAt |-> st.now])]

\* the loop "for (const pattern of quickPatterns) ..." from entry p on: the
\* first non-null reply, the handlers invoked and the reminder queue
RECURSIVE PatternLoop(_, _, _, _, _, _)
PatternLoop(p, st, chatId, text, rnd, invoked) ==
  IF p > PatternCount
  THEN [reply |-> NoAnswer, ran |-> invoked, reminders |-> st.reminders]
  ELSE IF p \notin Matches(text)
  THEN PatternLoop(p + 1, st, chatId, text, rnd, invoked)
  ELSE LET r == PatternResponse(p, st, chatId, text, rnd) IN
       IF r.reply # NoAnswer
       THEN [reply |-> r.reply, ran |-> Append(invoked, p), reminders |-> r.reminders]
       ELSE PatternLoop(p + 1, [st EXCEPT !.reminders = r.reminders],
                        chatId, text, rnd, Append(invoked, p))

\* checkSpecialStates(): the message (<<>> for null) and stress afterwards
checkSpecialStates(st) ==
  IF UsageAtLeast(st.used, st.budget, 1, 1)
  THEN [msg |-> ExhaustedMsg, stress |-> st.stress]
  ELSE IF UsageAtLeast(st.used, st.budget, 19, 20)
  THEN [msg |-> LowMsg, stress |-> st.stress]
  ELSE IF st.stress >= 80
  THEN [msg |-> BreathMsg, stress |-> st.stress - 10]
  ELSE [msg |-> NoAnswer, stress |-> st.stress]

Max(a, b) == IF a >= b THEN a ELSE b
Min(a, b) == IF a <= b THEN a ELSE b

\* tryQuickResponse(chatId, text) in router state st: the reply, the handlers
\* invoked, and energy, stress and the reminder queue afterwards
tryQuickResponseNoPatternsWhenExhausted(st, chatId, text, rnd) ==
  LET special == checkSpecialStates(st)
      st1 == [st EXCEPT !.stress = special.stress]
      loop == PatternLoop(1, st1, chatId, text, rnd, <<>>)
      quiet == [ran |-> <<>>, energy |-> st1.energy, stress |-> st1.stress,
                reminders |-> st1.reminders]
  IN
  IF special.msg # NoAnswer /\ UsageAtLeast(st1.used, st1.budget, 1, 1)
  THEN [reply |-> special.msg] @@ quiet
  ELSE IF special.msg # NoAnswer /\ st1.stress >= 80
  THEN [reply |-> special.msg] @@ quiet
  ELSE [reply |-> loop.reply, ran |-> loop.ran,
        energy |-> IF loop.reply # NoAnswer THEN Max(0, st1.energy - 1)
                   ELSE st1.energy,
        stress |-> st1.stress, reminders |-> loop.reminders]

tryQuickResponse(st, chatId, text, rnd) ==
  LET special == checkSpecialStates(st)
      st1 == [st EXCEPT !.stress = special.stress]
      loop == PatternLoop(1, st1, chatId, text, rnd, <<>>)
      quiet == [ran |-> <<>>, energy |-> st1.energy, stress |-> st1.stress,
                reminders |-> st1.reminders]
  IN
  IF special.msg # NoAnswer /\ UsageAtLeast(st1.used, st1.budget, 1, 1)
  THEN [reply |-> IF loop.reply # NoAnswer THEN loop.reply ELSE special.msg,
        ran |-> loop.ran, energy |-> st1.energy, stress |-> st1.stress,
        reminders |-> loop.reminders]
  ELSE IF special.msg # NoAnswer /\ st1.stress >= 80
  THEN [reply |-> special.msg] @@ quiet
  ELSE [reply |-> loop.reply, ran |-> loop.ran,
        energy |-> IF loop.reply # NoAnswer THEN Max(0, st1.energy - 1)
                   ELSE st1.energy,
        stress |-> st1.stress, reminders |-> loop.reminders]

\* the lizardBrain fields the router reads and writes
RouterState ==
  [energy |-> energy, stress |-> stress, curiosity |-> curiosity,
   used |-> used, budget |-> budget, reminders |-> pendingReminders,
   lastResponses |-> lastResponses, now |-> now]

(***************************************************************************)
(* Session store                                                           *)
(*                                                                         *)
(* A session is a JavaScript object shared by reference between the cache  *)
(* (the Map sessions) and the closures of the flush timers. A flush timer  *)
(* whose captured object is still the cache's entry for its chatId is      *)
(* 'live' and reads the entry when it fires; when the entry leaves the     *)
(* cache (eviction, clear) nothing can change the object any more, and the *)
(* timer keeps its contents in snap.                                       *)
(***************************************************************************)
\* the conversations of the session store: one more than the cache holds
SessionChatIds == 1..(MAX_CACHED_SESSIONS + 1)
Roles == {"user", "assistant"}
Contents == {"m"}

\* setTimeout(..., 1000) of saveSession, in milliseconds
DEBOUNCE_MS == 1000

EmptySession == [messages |-> <<>>, lastActivity |-> 0]
\* the value of a cache entry: a session, or what JSON.parse made of a file
\* that holds none
SessionOf(e) ==
  IF "messages" \in DOMAIN e
  THEN [messages |-> e.messages, lastActivity |-> e.lastActivity]
  ELSE [file |-> e.file]

\* sessions.has / sessions.get: the cache is a Map, kept as the sequence of
\* its entries [chatId, messages, lastActivity] in insertion order
CacheHas(sess, c) == \E i \in 1..Len(sess) : sess[i].chatId = c
CacheGet(sess, c) == SessionOf(sess[CHOOSE i \in 1..Len(sess) : sess[i].chatId = c])
CacheIds(sess) == {sess[i].chatId : i \in 1..Len(sess)}

\* the entries of s whose index is in keep, in order
KeepIndices(s, keep) ==
  LET F[i \in 0..Len(s)] ==
        IF i = 0 THEN <<>>
        ELSE IF i \in keep THEN Append(F[i - 1], s[i]) ELSE F[i - 1]
  IN F[Len(s)]

\* sessions.delete(c)
CacheDelete(sess, c) == KeepIndices(sess, {i \in 1..Len(sess) : sess[i].chatId # c})

\* evictOldSessions with the test "sessions.size <= MAX_CACHED_SESSIONS + 1"
\* and one entry fewer to evict
evictOldSessionsOneOver(sess) ==
  LET n == Len(sess)
      k == n - MAX_CACHED_SESSIONS - 1
      Before(i, j) == \/ sess[i].lastActivity < sess[j].lastActivity
                      \/ sess[i].lastActivity = sess[j].lastActivity /\ i < j
      rank(i) == Cardinality({j \in 1..n : Before(j, i)})
  IN IF n <= MAX_CACHED_SESSIONS + 1 THEN sess
     ELSE KeepIndices(sess, {i \in 1..n : rank(i) >= k})

\* evictOldSessions(): Array.prototype.sort is stable, so entries of equal
\* lastActivity keep their insertion order; the first size - MAX go
evictOldSessions(sess) ==
  LET n == Len(sess)
      k == n - MAX_CACHED_SESSIONS
      Before(i, j) == \/ sess[i].lastActivity < sess[j].lastActivity
                      \/ sess[i].lastActivity = sess[j].lastActivity /\ i < j
      rank(i) == Cardinality({j \in 1..n : Before(j, i)})
  IN IF n <= MAX_CACHED_SESSIONS THEN sess
     ELSE KeepIndices(sess, {i \in 1..n : rank(i) >= k})

\* the flush timers after the entries of gone left the cache before
FreezeTimers(tmrs, before, gone) ==
  [i \in 1..Len(tmrs) |->
     IF tmrs[i].live /\ tmrs[i].chatId \in gone
     THEN [tmrs[i] EXCEPT !.live = FALSE, !.snap = CacheGet(before, tmrs[i].chatId)]
     ELSE tmrs[i]]

\* files that are no stored session or calendar: one that readFileSync
\* cannot read (EACCES, EIO), one whose text JSON.parse rejects (a truncated
\* write), and one whose text parses, to null
Unreadable == [file |-> "EACCES"]
Garbled == [file |-> "{\"messages\":[{"]
JsonNull == [file |-> "null"]
DamagedFiles == {Unreadable, Garbled, JsonNull}

\* fs.readFileSync(path, "utf-8") followed by JSON.parse(data) throws
ReadThrows(file) == file = <<>> \/ file[1] \in {Unreadable, Garbled}

\* the try/catch of loadSession at time t: the parsed file, or the fresh
\* session when reading or parsing threw
readSession(file, t) ==
  IF ReadThrows(file) THEN [messages |-> <<>>, lastActivity |-> t] ELSE file[1]

\* the session store as one record
Store == [sessions |-> sessions, disk |-> disk,
          pendingSaves |-> pendingSaves, timers |-> timers]

\* loadSession(chatId) at time t: the store afterwards, the session object
\* returned, and whether that object is (still) the cache's entry
loadSession(S, c, t) ==
  IF CacheHas(S.sessions, c)
  THEN [store |-> S, session |-> CacheGet(S.sessions, c), cached |-> TRUE]
  ELSE LET session == readSession(S.disk[c], t)
           inserted == Append(S.sessions, [chatId |-> c] @@ session)
           kept == evictOldSessions(inserted)
           gone == CacheIds(inserted) \ CacheIds(kept)
       IN [store |-> [S EXCEPT !.sessions = kept,
                               !.timers = FreezeTimers(S.timers, inserted, gone)],
           session |-> session,
           cached |-> CacheHas(kept, c)]

\* saveSession(chatId, session): a timer unless one is pending for chatId
saveSession(S, c, session, cached, t) ==
  IF c \in S.pendingSaves THEN S
  ELSE [S EXCEPT !.pendingSaves = @ \cup {c},
                 !.timers = Append(@, [chatId |-> c, dueAt |-> t + DEBOUNCE_MS,
                                       live |-> cached,
                                       snap |-> IF cached THEN EmptySession
                                                ELSE session])]

\* messages.slice(-n): the last n for n > 0, everything for n = 0 (slice(-0)
\* is slice(0)), and all but the first -n for n < 0
SliceLast(msgs, n) ==
  IF n > 0 THEN SubSeq(msgs, Max(1, Len(msgs) - n + 1), Len(msgs))
  ELSE SubSeq(msgs, Min(Len(msgs), - n) + 1, Len(msgs))

\* addToSession(chatId, role, content) at time t
addToSession(S, c, role, content, t, maxHistory) ==
  LET l == loadSession(S, c, t)
      pushed == Append(l.session.messages,
                       [role |-> role, content |-> content, timestamp |-> t])
      trimmed == IF Len(pushed) > maxHistory THEN SliceLast(pushed, maxHistory)
                 ELSE pushed
      session == [messages |-> trimmed, lastActivity |-> t]
      S1 == IF l.cached
            THEN [l.store EXCEPT !.sessions =
                    [i \in 1..Len(@) |->
                       IF @[i].chatId = c THEN [chatId |-> c] @@ session ELSE @[i]]]
            ELSE l.store
  IN [store |-> saveSession(S1, c, session, l.cached, t), loaded |-> l.session]

\* clearSession(chatId)
clearSession(S, c) ==
  [sessions |-> CacheDelete(S.sessions, c),
   pendingSaves |-> S.pendingSaves \ {c},
   disk |-> [S.disk EXCEPT ![c] = <<>>],
   timers |-> FreezeTimers(S.timers, S.sessions, {c} \cap CacheIds(S.sessions))]

\* the callback of the oldest flush timer: pendingSaves.delete and writeFileSync
flushTimer(S) ==
  LET tm == Head(S.timers)
      written == IF tm.live THEN CacheGet(S.sessions, tm.chatId) ELSE tm.snap
  IN [S EXCEPT !.timers = Tail(@),
               !.pendingSaves = @ \ {tm.chatId},
               !.disk[tm.chatId] = <<written>>]

\* the store before the first message: no cache entry, no file, no timer
InitStore ==
  /\ sessions = <<>>
  /\ disk = [c \in SessionChatIds |-> <<>>]
  /\ pendingSaves = {}
  /\ timers = <<>>
  /\ loaded = EmptySession
  /\ appended = [c \in SessionChatIds |-> <<>>]

\* the operation that ran last
Op(name, c, text) == [name |-> name, chatId |-> c, text |-> text]

(***************************************************************************)
(* Tick driver                                                             *)
(*                                                                         *)
(* setInterval starts runLizardLoop() every lizardInterval milliseconds    *)
(* and does not wait for the promise it returns. An execution runs to its  *)
(* first await in one step and is kept in ticks while it is suspended:     *)
(* at "send" it awaits the delivery of the first reminder of due, at       *)
(* "onTick" the digest callback.                                           *)
(***************************************************************************)
\* CONFIG.lizardInterval, in milliseconds
LIZARD_INTERVAL == 30000
DAY_MS == 24 * 60 * 60 * 1000

HOUR_MS == 60 * 60 * 1000

\* the time zone of the process (process.env.TZ): local time is UTC + offset,
\* and from the instant shiftAt on (when shift # 0) UTC + offset + shift
UTC == [offset |-> 0, shiftAt |-> 0, shift |-> 0]
LocalOffset(z, t) ==
  z.offset + (IF z.shift # 0 /\ t >= z.shiftAt THEN z.shift ELSE 0)

\* the wall-clock reading of the instant t, in milliseconds
LocalTime(z, t) == t + LocalOffset(z, t)

\* Date.getTime() of the wall-clock reading w
InstantOf(z, w) ==
  IF z.shift = 0 \/ w - z.offset < z.shiftAt THEN w - z.offset
  ELSE w - z.offset - z.shift

\* getNextMidnight with setHours(0, 0, 0, 0): the start of the local day of t
getNextMidnightSameDay(t, z) == InstantOf(z, (LocalTime(z, t) \div DAY_MS) * DAY_MS)

\* getNextMidnight() called at time t: setHours(24, 0, 0, 0) is the start of
\* the next local day
getNextMidnight(t, z) == InstantOf(z, (LocalTime(z, t) \div DAY_MS + 1) * DAY_MS)

\* used / budget > num / den as JavaScript evaluates it
UsageAbove(u, b, num, den) ==
  IF b > 0 THEN u * den > num * b
  ELSE IF b = 0 THEN u > 0
  ELSE FALSE

\* (Math.random() - 0.5) * 5, to the integer
CuriosityDrifts == {-2, 0, 2}

\* the lizardBrain fields steps 1 and 2 of the tick read and write
TickState ==
  [energy |-> energy, stress |-> stress, curiosity |-> curiosity,
   used |-> used, budget |-> budget, resetAt |-> resetAt, zone |-> zone]

\* regulate with the reset test written "Date.now() > resetAt"
regulateLateReset(st, t, drift) ==
  LET s1 == Max(0, st.stress - 1)
      reset == t > st.resetAt
      u1 == IF reset THEN 0 ELSE st.used
      s2 == IF reset THEN Max(0, s1 - 20) ELSE s1
  IN [energy |-> Min(100, st.energy + 2),
      stress |-> IF UsageAbove(u1, st.budget, 9, 10) THEN Min(100, s2 + 2)
                 ELSE IF UsageAbove(u1, st.budget, 3, 4) THEN Min(100, s2 + 1)
                 ELSE s2,
      curiosity |-> Max(0, Min(100, st.curiosity + drift)),
      used |-> u1,
      resetAt |-> IF reset THEN getNextMidnight(t, st.zone) ELSE st.resetAt]

\* steps 1 and 2 of runLizardLoop() at time t: mood regulation, the midnight
\* reset, and the stress of a budget that runs low
regulate(st, t, drift) ==
  LET e1 == Min(100, st.energy + 2)
      s1 == Max(0, st.stress - 1)
      c1 == Max(0, Min(100, st.curiosity + drift))
      reset == t >= st.resetAt
      u1 == IF reset THEN 0 ELSE st.used
      r1 == IF reset THEN getNextMidnight(t, st.zone) ELSE st.resetAt
      s2 == IF reset THEN Max(0, s1 - 20) ELSE s1
      s3 == IF UsageAbove(u1, st.budget, 9, 10) THEN Min(100, s2 + 2)
            ELSE IF UsageAbove(u1, st.budget, 3, 4) THEN Min(100, s2 + 1)
            ELSE s2
  IN [energy |-> e1, stress |-> s3, curiosity |-> c1, used |-> u1, resetAt |-> r1]

\* pendingReminders.filter(r => r.dueAt <= now) and its complement
DueReminders(rs, t) == SelectSeq(rs, LAMBDA r : r.dueAt <= t)
LaterReminders(rs, t) == SelectSeq(rs, LAMBDA r : r.dueAt > t)

\* step 4: a map of more than 100 entries is cut to its last 50
LAST_RESPONSES_LIMIT == 100
LAST_RESPONSES_KEEP == 50
pruneLastResponses(map) ==
  IF Len(map) > LAST_RESPONSES_LIMIT
  THEN SubSeq(map, Len(map) - LAST_RESPONSES_KEEP + 1, Len(map))
  ELSE map

\* steps 3.6 and 4: a cleanup callback that throws ends the tick before the
\* map is pruned
cleanupStep(map, hasCleanup, throws) ==
  IF hasCleanup /\ throws THEN map ELSE pruneLastResponses(map)

\* the tick tk from the end of its reminder loop on: the queue keeps the
\* reminders due after the tick's own now; then the digest callback is
\* awaited, or the tick runs to its end. rest are the other executions.
AfterReminders(tk, before, after, throws) ==
  /\ pendingReminders' = LaterReminders(pendingReminders, tk.now)
  /\ IF driver.onTick
     THEN /\ ticks' = before \o <<[pc |-> "onTick", now |-> tk.now, due |-> <<>>]>> \o after
          /\ UNCHANGED lastResponses
     ELSE /\ ticks' = before \o after
          /\ lastResponses' = cleanupStep(lastResponses, driver.onCleanup, throws)

\* the calendar before the first command: no calendar.json, no pending tag
InitCalendar ==
  /\ zone = UTC
  /\ calendar = <<>>
  /\ digestsSent = <<>>
  /\ pendingContactTag = <<>>
  /\ collected = <<>>
  /\ digests = <<>>

\* the tick driver before startLizardLoop
InitTickDriver ==
  /\ driver = [interval |-> 0, started |-> 0, onTick |-> FALSE, onCleanup |-> FALSE]
  /\ intervals = {}
  /\ ticks = <<>>
  /\ resetAt = getNextMidnight(now, zone)
  /\ delivered = <<>>

\* message handling before the first message
InitPipeline ==
  /\ keys = [api |-> TRUE, tavily |-> FALSE]
  /\ inflight = <<>>
  /\ apiErrors = 0
  /\ rateLimitResetAt = 0
  /\ idleSince = now
  /\ providerCalls = 0
  /\ reply = <<>>
  /\ memory = [c \in SessionChatIds |-> 0]

(***************************************************************************)
(* Ladder probes: the ladder is a pure function of (used, budget, config); *)
(* every probe draws a budget state and evaluates the ladder on it.        *)
(***************************************************************************)
InitLadder ==
  /\ config \in Configs
  /\ used = 0
  /\ budget \in 1..MaxBudget
  /\ params = NoParams
  /\ tier = "none"
  /\ energy = 100
  /\ stress = 0
  /\ curiosity = 50
  /\ pendingReminders = <<>>
  /\ lastResponses = <<>>
  /\ now = 0
  /\ messagesReceived = 0
  /\ qr = <<>>
  /\ ran = <<>>
  /\ InitStore
  /\ InitCalendar
  /\ InitTickDriver
  /\ InitPipeline
  /\ op = Op("init", 0, "")

\* getBudgetAwareParams() evaluated in a budget state (u, b)
LadderProbe ==
  \E u \in 0..MaxUsed, b \in 1..MaxBudget :
    /\ used' = u
    /\ budget' = b
    /\ params' = getBudgetAwareParams(u, b, config)
    /\ tier' = SelectedTier(u, b)
    /\ op' = Op("getBudgetAwareParams", 0, "")
    /\ UNCHANGED <<tickVars, pipeVars, calVars, config, moodVars, routerVars, now, storeVars>>

NextLadder == LadderProbe

SpecLadder == InitLadder /\ [][NextLadder]_vars

(***************************************************************************)
(* Router calls: the message handler consults tryQuickResponse for every   *)
(* text message that is neither a command nor carries media. The router    *)
(* is started in the mood and budget states below, all of which the mood   *)
(* and budget arithmetic reaches.                                          *)
(***************************************************************************)
RouterBudget == 20

InitRouter ==
  /\ config = [model |-> DefaultModel, maxTokens |-> 4096, maxHistory |-> 50]
  /\ budget = RouterBudget
  /\ used \in {0, 19, 20}
  /\ params = NoParams
  /\ tier = "none"
  /\ energy \in {0, 1, 30}
  /\ stress \in {0, 79, 85, 90}
  /\ curiosity \in {50, 81}
  /\ pendingReminders = <<>>
  /\ lastResponses \in {<<>>, <<[chatId |-> 1, text |-> <<"Hey!">>]>>}
  /\ now = 90000
  /\ messagesReceived = 0
  /\ qr = <<>>
  /\ ran = <<>>
  /\ InitStore
  /\ InitCalendar
  /\ InitTickDriver
  /\ InitPipeline
  /\ op = Op("init", 0, "")

\* messages.upsert for a plain text: status.messagesReceived++ and
\* tryQuickResponse(chatId, text)
RouterCall(c, text) ==
  /\ messagesReceived < MaxMessages
  /\ \E rnd \in RandomDraws :
     \E r \in {tryQuickResponse(RouterState, c, text, rnd)} :
       /\ qr' = r.reply
       /\ ran' = r.ran
       /\ energy' = r.energy
       /\ stress' = r.stress
       /\ pendingReminders' = r.reminders
  /\ messagesReceived' = messagesReceived + 1
  /\ op' = Op("tryQuickResponse", c, text)
  /\ UNCHANGED <<tickVars, pipeVars, calVars, ladderVars, curiosity, lastResponses, now, storeVars>>

NextRouter == \E c \in ChatIds, text \in Texts : RouterCall(c, text)

SpecRouter == InitRouter /\ [][NextRouter]_vars

(***************************************************************************)
(* Session store runs: the operations chat(), the /clear command and the   *)
(* flush timers perform on the store, interleaved on the event loop.       *)
(***************************************************************************)
\* the granularity of the clock: one debounce window
ClockStep == DEBOUNCE_MS
\* Date.now() when the process starts
StartTime == DEBOUNCE_MS

InitSession ==
  /\ config = [model |-> DefaultModel, maxTokens |-> 4096,
               maxHistory |-> SessionMaxHistory]
  /\ budget = RouterBudget
  /\ used = 0
  /\ params = NoParams
  /\ tier = "none"
  /\ energy = 100
  /\ stress = 0
  /\ curiosity = 50
  /\ pendingReminders = <<>>
  /\ lastResponses = <<>>
  /\ now = StartTime
  /\ messagesReceived = 0
  /\ qr = <<>>
  /\ ran = <<>>
  /\ InitStore
  /\ InitCalendar
  /\ InitTickDriver
  /\ InitPipeline
  /\ op = Op("init", 0, "")

SetStore(S) ==
  /\ sessions' = S.sessions
  /\ disk' = S.disk
  /\ pendingSaves' = S.pendingSaves
  /\ timers' = S.timers

\* the conversations the store knows, and those a message can come from:
\* chat ids are interchangeable, so new conversations appear in id order
Known == {c \in SessionChatIds :
            \/ appended[c] # <<>>
            \/ CacheHas(sessions, c)
            \/ disk[c] # <<>>
            \/ \E i \in 1..Len(timers) : timers[i].chatId = c}
Reachable == {c \in SessionChatIds : \A d \in 1..(c - 1) : d \in Known}

\* chat() appends the user's message, then the assistant's reply
NextRole(c) == IF Len(appended[c]) % 2 = 0 THEN "user" ELSE "assistant"

\* addToSession(c, role, content), called by chat()
AddToSession(c, role, content) ==
  /\ Len(appended[c]) < MaxAppends
  /\ c \in pendingSaves \/ Len(timers) < MaxTimers
  /\ \E r \in {addToSession(Store, c, role, content, now, config.maxHistory)} :
       /\ SetStore(r.store)
       /\ loaded' = r.loaded
  /\ appended' = [appended EXCEPT ![c] =
                    Append(@, [role |-> role, content |-> content, timestamp |-> now])]
  /\ op' = Op("addToSession", c, content)
  /\ UNCHANGED <<tickVars, pipeVars, calVars, ladderVars, moodVars, routerVars, now>>

\* getConversationHistory(c), called by chat()
GetConversationHistory(c) ==
  /\ \E l \in {loadSession(Store, c, now)} :
       /\ SetStore(l.store)
       /\ loaded' = l.session
  /\ op' = Op("getConversationHistory", c, "")
  /\ UNCHANGED <<tickVars, pipeVars, calVars, ladderVars, moodVars, routerVars, now, appended>>

\* clearSession(c), called by the /clear and /reset commands
ClearSession(c) ==
  /\ SetStore(clearSession(Store, c))
  /\ appended' = [appended EXCEPT ![c] = <<>>]
  /\ loaded' = EmptySession
  /\ op' = Op("clearSession", c, "")
  /\ UNCHANGED <<tickVars, pipeVars, calVars, ladderVars, moodVars, routerVars, now>>

\* the oldest flush timer fires, once its second has passed
FlushTimer ==
  /\ timers # <<>>
  /\ now >= Head(timers).dueAt
  /\ SetStore(flushTimer(Store))
  /\ loaded' = EmptySession
  /\ op' = Op("flush", Head(timers).chatId, "")
  /\ UNCHANGED <<tickVars, pipeVars, calVars, ladderVars, moodVars, routerVars, now, appended>>

\* time passes; a timer that is due fires before the clock moves on
AdvanceClock ==
  /\ now < StartTime + MaxClockSteps * ClockStep
  /\ \A i \in 1..Len(timers) : timers[i].dueAt > now
  /\ now' = now + ClockStep
  /\ loaded' = EmptySession
  /\ op' = Op("clock", 0, "")
  /\ UNCHANGED <<tickVars, pipeVars, calVars, ladderVars, moodVars, routerVars, sessions, disk, pendingSaves,
                 timers, appended>>

NextSession ==
  \/ \E c \in Reachable, content \in Contents :
       AddToSession(c, NextRole(c), content)
  \/ \E c \in Reachable : GetConversationHistory(c)
  \/ \E c \in Known : ClearSession(c)
  \/ FlushTimer
  \/ AdvanceClock

SpecSession == InitSession /\ [][NextSession]_vars

(***************************************************************************)
(* Message handling: the messages.upsert handler of index.ts. A handler    *)
(* execution runs from one await to the next in one step and is kept in    *)
(* inflight while it is suspended: at "download" (media), "create" (the    *)
(* provider call of chat), "search" (webSearch), "send" (the reply),       *)
(* "notice" (a message that ends the handling), "apology" (the catch       *)
(* block), "facts" and "summary" (the provider calls of the background     *)
(* memory update).                                                         *)
(***************************************************************************)
BudgetReply == <<"I've used up my thinking budget for today">>
ApologyMsg == <<"Sorry, I encountered an error. Please try again.">>
ImageFailMsg == <<"Sorry, I couldn't process that image.">>
DocErrorMsg == <<"<document error>">>
DocTooLargeMsg == <<"That document looks large">>
ClearedMsg == <<"Session cleared. Starting fresh!">>
StatusMsg == <<"<status>">>
ForgotMsg == <<"Done! I've forgotten everything about you. Fresh start!">>
Answer == "<answer>"

\* the conversations the messages come from, and the Math.random() draws
\* of the router's replies
MessageChatIds == {1}
MessageDraws == {0}

\* the inbound messages: text and attachment
Inbound ==
  { [text |-> "hi!", media |-> "none"],
    [text |-> "tell me a story", media |-> "none"],
    [text |-> "/clear", media |-> "none"],
    [text |-> "/foo", media |-> "none"],
    [text |-> "", media |-> "image"],
    [text |-> "tell me a story", media |-> "document"] }

\* isCommand(text): text.startsWith("/"), over the texts of Inbound
isCommand(text) == text \in {"/clear", "/status", "/forget", "/foo"}

\* estimateDocumentTokens of the documents received
DocTokenDraws == {1, 19}
\* input_tokens + output_tokens of a provider response
TokenDraws == {0, 20}

\* how a client.messages.create call settles; tool_use only when tools were
\* passed and the tool-use loop has rounds left
CreateOutcomes(tools, rounds) ==
  {[ok |-> TRUE, tokens |-> t, stop |-> "end_turn", kind |-> ""] : t \in TokenDraws}
  \cup (IF tools /\ rounds < MaxToolRounds
        THEN {[ok |-> TRUE, tokens |-> t, stop |-> "tool_use", kind |-> ""] : t \in TokenDraws}
        ELSE {})
  \cup {[ok |-> FALSE, tokens |-> 0, stop |-> "", kind |-> k] :
          k \in {"error", "429", "429retry"}}

\* the state a handler step reads and writes
HandlerState ==
  [store |-> Store, appended |-> appended, loaded |-> EmptySession,
   energy |-> energy, stress |-> stress, curiosity |-> curiosity,
   used |-> used, reminders |-> pendingReminders,
   lastResponses |-> lastResponses, idleSince |-> idleSince,
   apiErrors |-> apiErrors, rateLimitResetAt |-> rateLimitResetAt,
   memory |-> memory, providerCalls |-> providerCalls,
   params |-> params, tier |-> tier, qr |-> qr, ran |-> ran]

\* the router's view of a handler state
RouterStateOf(st) ==
  [energy |-> st.energy, stress |-> st.stress, curiosity |-> st.curiosity,
   used |-> st.used, budget |-> budget, reminders |-> st.reminders,
   lastResponses |-> st.lastResponses, now |-> now]

\* a suspended handler execution
Handler(c, text, media, pc) ==
  [chatId |-> c, text |-> text, media |-> media, pc |-> pc,
   skippedApi |-> FALSE, response |-> <<>>, totalTokens |-> 0, rounds |-> 0,
   request |-> NoParams, messages |-> <<>>]

\* handleCommand(chatId, senderId, text): the reply, <<>> for null
handleCommand(st, c, text) ==
  CASE text = "/clear" ->
         [st |-> [st EXCEPT !.store = clearSession(@, c), !.appended[c] = <<>>],
          reply |-> ClearedMsg]
    [] text = "/status" ->
         LET l == loadSession(st.store, c, now) IN
         [st |-> [st EXCEPT !.store = l.store, !.loaded = l.session,
                            !.params = getBudgetAwareParams(st.used, budget, config),
                            !.tier = SelectedTier(st.used, budget)],
          reply |-> StatusMsg]
    [] text = "/forget" ->
         [st |-> [st EXCEPT !.memory[c] = 0], reply |-> ForgotMsg]
    [] OTHER -> [st |-> st, reply |-> NoAnswer]

\* the text chat() puts into the history for a message
HistoryText(text, media) ==
  IF media = "document" THEN "[Document: file] " \o text
  ELSE IF media = "image" THEN (IF text = "" THEN "[Image]" ELSE text)
  ELSE text

FIVE_MINUTES == 5 * 60 * 1000

\* chat() up to its first await, ignoring the ladder's block
chatEnterNeverBlocks(st, c, text, media) ==
  IF ~ keys.api THEN [st |-> st, out |-> "throw", reply |-> NoAnswer]
  ELSE LET p == getBudgetAwareParams(st.used, budget, config)
           st1 == [st EXCEPT !.params = p, !.tier = SelectedTier(st.used, budget)]
           content == HistoryText(text, media)
           a == addToSession(st1.store, c, "user", content, now, config.maxHistory)
           l == loadSession(a.store, c, now)
       IN [st |-> [st1 EXCEPT
                     !.store = l.store, !.loaded = l.session,
                     !.appended[c] = Append(@, [role |-> "user", content |-> content,
                                                timestamp |-> now]),
                     !.curiosity = IF now - st.idleSince > FIVE_MINUTES
                                   THEN Min(100, @ + 10) ELSE @,
                     !.idleSince = now,
                     !.providerCalls = @ + 1],
           out |-> "await", reply |-> NoAnswer]

\* chat() up to its first await: getClient() throws without an API key; a
\* blocking ladder returns the budget reply; otherwise the user message is
\* appended, the history read, and client.messages.create called
chatEnter(st, c, text, media) ==
  IF ~ keys.api THEN [st |-> st, out |-> "throw", reply |-> NoAnswer]
  ELSE LET p == getBudgetAwareParams(st.used, budget, config)
           st1 == [st EXCEPT !.params = p, !.tier = SelectedTier(st.used, budget)]
       IN IF p.shouldBlock
          THEN [st |-> st1, out |-> "return", reply |-> BudgetReply]
          ELSE LET content == HistoryText(text, media)
                   a == addToSession(st1.store, c, "user", content, now,
                                     config.maxHistory)
                   l == loadSession(a.store, c, now)
               IN [st |-> [st1 EXCEPT
                             !.store = l.store, !.loaded = l.session,
                             !.appended[c] = Append(@, [role |-> "user",
                                                        content |-> content,
                                                        timestamp |-> now]),
                             !.curiosity = IF now - st.idleSince > FIVE_MINUTES
                                           THEN Min(100, @ + 10) ELSE @,
                             !.idleSince = now,
                             !.providerCalls = @ + 1],
                   out |-> "await", reply |-> NoAnswer]

\* answerWithoutApi with a quick answer charged to the budget as one token
answerWithoutApiCharged(st, c, text, media, rnd) ==
  IF isCommand(text) /\ media = "none"
  THEN LET cmd == handleCommand(st, c, text) IN
       [st |-> cmd.st, reply |-> cmd.reply,
        route |-> IF cmd.reply # NoAnswer THEN "command" ELSE "chat"]
  ELSE IF media = "none"
  THEN LET q == tryQuickResponse(RouterStateOf(st), c, text, rnd) IN
       [st |-> [st EXCEPT !.energy = q.energy, !.stress = q.stress,
                          !.reminders = q.reminders, !.qr = q.reply,
                          !.ran = q.ran,
                          !.used = IF q.reply # NoAnswer THEN @ + 1 ELSE @],
        reply |-> q.reply,
        route |-> IF q.reply # NoAnswer THEN "quick" ELSE "chat"]
  ELSE [st |-> st, reply |-> NoAnswer, route |-> "chat"]

\* the handler from "Check for commands" up to chat(): the reply of
\* handleCommand or tryQuickResponse (route "command" or "quick"), or <<>>
\* and route "chat" when the message goes on to chat()
answerWithoutApi(st, c, text, media, rnd) ==
  IF isCommand(text) /\ media = "none"
  THEN LET cmd == handleCommand(st, c, text) IN
       [st |-> cmd.st, reply |-> cmd.reply,
        route |-> IF cmd.reply # NoAnswer THEN "command" ELSE "chat"]
  ELSE IF media = "none"
  THEN LET q == tryQuickResponse(RouterStateOf(st), c, text, rnd) IN
       [st |-> [st EXCEPT !.energy = q.energy, !.stress = q.stress,
                          !.reminders = q.reminders, !.qr = q.reply,
                          !.ran = q.ran],
        reply |-> q.reply,
        route |-> IF q.reply # NoAnswer THEN "quick" ELSE "chat"]
  ELSE [st |-> st, reply |-> NoAnswer, route |-> "chat"]

\* the catch block of the handler with "stress += 10"
handlerCatchUnclamped(st) == [st EXCEPT !.stress = @ + 10]

\* the catch block of the handler
handlerCatch(st) == [st EXCEPT !.stress = Min(100, @ + 10)]

\* Math.ceil(totalTokens / 500)
Ceil500(n) == (n + 499) \div 500

\* applyMoodModifiers(response): yawn and follow are the two Math.random()
\* comparisons; the answer of the provider holds no question mark
applyMoodModifiers(response, e, cur, yawn, follow) ==
  LET m1 == IF e < 30 /\ yawn THEN "*yawn* " \o response ELSE response
  IN IF cur > 80 /\ follow THEN m1 \o " Curious - what made you think of that?"
     ELSE m1

\* chat() after the last provider response, from the energy cost to return
chatFinish(st, c, totalTokens, yawn, follow) ==
  LET e == Max(0, st.energy - Min(10, Ceil500(totalTokens)))
      msg == applyMoodModifiers(Answer, e, st.curiosity, yawn, follow)
      a == addToSession(st.store, c, "assistant", msg, now, config.maxHistory)
  IN [st |-> [st EXCEPT
                !.energy = e, !.apiErrors = 0,
                !.lastResponses = MapSet(@, c, <<msg>>),
                !.store = a.store, !.loaded = a.loaded,
                !.appended[c] = Append(@, [role |-> "assistant", content |-> msg,
                                           timestamp |-> now])],
      reply |-> <<msg>>]

\* the catch block without its stress limit and its error counter
chatFailUnchecked(st, kind) ==
  [st EXCEPT !.stress = IF kind \in {"429", "429retry"} THEN @ + 35 ELSE @ + 15,
             !.rateLimitResetAt = IF kind = "429retry"
                                  THEN now + RetryAfterSeconds * 1000 ELSE @]

\* the catch block of chat(), before it rethrows
chatFail(st, kind) ==
  LET s1 == Min(100, st.stress + 15) IN
  [st EXCEPT !.apiErrors = @ + 1,
             !.stress = IF kind \in {"429", "429retry"} THEN Min(100, s1 + 20) ELSE s1,
             !.rateLimitResetAt = IF kind = "429retry"
                                  THEN now + RetryAfterSeconds * 1000 ELSE @]

\* messages.slice(0, -n)
SliceButLast(msgs, n) == SubSeq(msgs, 1, Len(msgs) - n)

\* updateMemoryIfNeeded from "Summarize when history exceeds" on, over the
\* messages the session held when it was loaded
summaryStep(st, c, messages) ==
  LET old == SliceButLast(messages, SUMMARY_KEEP)
      toSummarize == SelectSeq(old, LAMBDA m : m.timestamp > st.memory[c])
  IN IF Len(messages) > SUMMARY_ABOVE /\ Len(toSummarize) > SUMMARY_MIN
     THEN [st |-> [st EXCEPT !.providerCalls = @ + 1], next |-> "summary",
           messages |-> messages]
     ELSE [st |-> st, next |-> "done", messages |-> <<>>]

\* updateMemoryIfNeeded(chatId) up to its first await
updateMemoryIfNeeded(st, c) ==
  IF ~ keys.api THEN [st |-> st, next |-> "done", messages |-> <<>>]
  ELSE LET l == loadSession(st.store, c, now)
           st1 == [st EXCEPT !.store = l.store, !.loaded = l.session]
           count == Len(l.session.messages)
       IN IF count > 0 /\ count % FACTS_EVERY = 0
          THEN [st |-> [st1 EXCEPT !.providerCalls = @ + 1], next |-> "facts",
                messages |-> l.session.messages]
          ELSE summaryStep(st1, c, l.session.messages)

(***************************************************************************)
(* Message runs: inbound messages and the completions their handlers      *)
(* await. The first message arrives when the process has been up, and      *)
(* idle, for more than five minutes; the runs span less than one debounce  *)
(* window, so no flush timer fires in them (the session store runs cover   *)
(* the timers).                                                            *)
(***************************************************************************)
Init ==
  /\ config = [model |-> DefaultModel, maxTokens |-> 4096,
               maxHistory |-> PipelineMaxHistory]
  /\ budget = RouterBudget
  /\ keys \in {[api |-> TRUE, tavily |-> TRUE], [api |-> TRUE, tavily |-> FALSE],
               [api |-> FALSE, tavily |-> FALSE]}
  /\ used \in (IF keys.api THEN {0, 19} ELSE {0})
  /\ params = NoParams
  /\ tier = "none"
  /\ energy = 100
  /\ stress \in (IF keys.api THEN {0, 60} ELSE {0})
  /\ curiosity = 50
  /\ pendingReminders = <<>>
  /\ lastResponses = <<>>
  /\ now = StartTime
  /\ messagesReceived = 0
  /\ qr = <<>>
  /\ ran = <<>>
  /\ InitStore
  /\ InitCalendar
  /\ InitTickDriver
  /\ inflight = <<>>
  /\ apiErrors = 0
  /\ rateLimitResetAt = 0
  /\ idleSince = StartTime - FIVE_MINUTES - 1
  /\ providerCalls = 0
  /\ reply = <<>>
  /\ memory = [c \in SessionChatIds |-> 0]
  /\ op = Op("init", 0, "")

SetHandlerState(st) ==
  /\ SetStore(st.store)
  /\ appended' = st.appended
  /\ loaded' = st.loaded
  /\ energy' = st.energy
  /\ stress' = st.stress
  /\ curiosity' = st.curiosity
  /\ used' = st.used
  /\ pendingReminders' = st.reminders
  /\ lastResponses' = st.lastResponses
  /\ idleSince' = st.idleSince
  /\ apiErrors' = st.apiErrors
  /\ rateLimitResetAt' = st.rateLimitResetAt
  /\ memory' = st.memory
  /\ providerCalls' = st.providerCalls
  /\ params' = st.params
  /\ tier' = st.tier
  /\ qr' = st.qr
  /\ ran' = st.ran

\* the suspended executions other than the i-th
Others(i) == SubSeq(inflight, 1, i - 1) \o SubSeq(inflight, i + 1, Len(inflight))

\* the handler from "Check for commands" to its next await
Dispatch(c, text, media, rnd, others) ==
  \E st0 \in {HandlerState} :
  \E pre \in {answerWithoutApi(st0, c, text, media, rnd)} :
  \E r \in {IF pre.route # "chat"
            THEN [st |-> pre.st, out |-> "reply", reply |-> pre.reply]
            ELSE chatEnter(pre.st, c, text, media)} :
    /\ op' = Op(pre.route, c, text)
    /\ reply' = r.reply
    /\ CASE r.out = "throw" ->
              /\ SetHandlerState(handlerCatch(r.st))
              /\ inflight' = Append(others, Handler(c, text, media, "apology"))
         [] r.out = "await" ->
              /\ SetHandlerState(r.st)
              /\ inflight' = Append(others, [Handler(c, text, media, "create")
                                               EXCEPT !.request = r.st.params])
         [] OTHER ->
              /\ SetHandlerState([r.st EXCEPT !.lastResponses = MapSet(@, c, r.reply)])
              /\ inflight' = Append(others, [Handler(c, text, media, "send")
                                               EXCEPT !.skippedApi = (pre.route # "chat"),
                                                      !.response = r.reply])

\* a message that ends the handling is sent ("continue" follows the await)
Notice(h, msg, others) ==
  /\ SetHandlerState(HandlerState)
  /\ inflight' = Append(others, [h EXCEPT !.pc = "notice", !.response = msg])
  /\ reply' = msg
  /\ op' = Op("notice", h.chatId, h.text)

\* the catch block of the handler: the apology is sent
Caught(h, st, others, name) ==
  /\ SetHandlerState(handlerCatch(st))
  /\ inflight' = Append(others, [h EXCEPT !.pc = "apology", !.response = ApologyMsg])
  /\ reply' = <<>>
  /\ op' = Op(name, h.chatId, h.text)

\* the execution ends
Ended(st, others, name, h) ==
  /\ SetHandlerState(st)
  /\ inflight' = others
  /\ reply' = <<>>
  /\ op' = Op(name, h.chatId, h.text)

\* messages.upsert delivers a message with text or media
ReceiveMessage(c, inb, rnd) ==
  /\ messagesReceived < MaxMessages
  /\ messagesReceived' = messagesReceived + 1
  /\ IF inb.media # "none"
     THEN /\ SetHandlerState(HandlerState)
          /\ inflight' = Append(inflight, Handler(c, inb.text, inb.media, "download"))
          /\ reply' = <<>>
          /\ op' = Op("download", c, inb.text)
     ELSE Dispatch(c, inb.text, "none", rnd, inflight)
  /\ UNCHANGED <<config, budget, keys, now, tickVars, calVars>>

\* downloadImage / downloadDocument settles: ok is a usable attachment, est
\* the estimated tokens of a document
DownloadDone(i, ok, est, rnd) ==
  /\ i \in 1..Len(inflight)
  /\ inflight[i].pc = "download"
  /\ LET h == inflight[i] IN
       IF ~ ok
       THEN Notice(h, IF h.media = "image" THEN ImageFailMsg ELSE DocErrorMsg, Others(i))
       ELSE IF h.media = "document" /\ UsageAbove(used + est, budget, 9, 10)
       THEN Notice(h, DocTooLargeMsg, Others(i))
       ELSE Dispatch(h.chatId, h.text, h.media, rnd, Others(i))
  /\ UNCHANGED <<config, budget, keys, now, messagesReceived, tickVars, calVars>>

\* the send of a notice settles
NoticeSent(i, ok) ==
  /\ i \in 1..Len(inflight)
  /\ inflight[i].pc = "notice"
  /\ IF ok THEN Ended(HandlerState, Others(i), "noticeSent", inflight[i])
     ELSE Caught(inflight[i], HandlerState, Others(i), "noticeSent")
  /\ UNCHANGED <<config, budget, keys, now, messagesReceived, tickVars, calVars>>

\* client.messages.create of chat() settles with outcome o
CreateDone(i, o, yawn, follow) ==
  /\ i \in 1..Len(inflight)
  /\ inflight[i].pc = "create"
  /\ LET h == inflight[i]
         c == h.chatId
     IN /\ o \in CreateOutcomes(IF h.rounds = 0 THEN keys.tavily ELSE TRUE, h.rounds)
        /\ IF ~ o.ok
           THEN Caught(h, chatFail(HandlerState, o.kind), Others(i), "createFailed")
           ELSE LET st1 == [HandlerState EXCEPT !.used = @ + o.tokens]
                    total == h.totalTokens + o.tokens
                IN IF o.stop = "tool_use"
                   THEN /\ SetHandlerState(st1)
                        /\ inflight' = Append(Others(i), [h EXCEPT !.pc = "search",
                                                            !.totalTokens = total])
                        /\ reply' = <<>>
                        /\ op' = Op("createDone", c, h.text)
                   ELSE \E f \in {chatFinish(st1, c, total, yawn, follow)} :
                          /\ SetHandlerState(f.st)
                          /\ inflight' = Append(Others(i),
                                                [h EXCEPT !.pc = "send",
                                                          !.totalTokens = total,
                                                          !.response = f.reply])
                          /\ reply' = f.reply
                          /\ op' = Op("createDone", c, h.text)
  /\ UNCHANGED <<config, budget, keys, now, messagesReceived, tickVars, calVars>>

\* webSearch settles: the tool result goes back to the provider
SearchDone(i) ==
  /\ i \in 1..Len(inflight)
  /\ inflight[i].pc = "search"
  /\ SetHandlerState([HandlerState EXCEPT !.providerCalls = @ + 1])
  /\ inflight' = Append(Others(i), [inflight[i] EXCEPT !.pc = "create",
                                                       !.rounds = @ + 1])
  /\ reply' = <<>>
  /\ op' = Op("searchDone", inflight[i].chatId, inflight[i].text)
  /\ UNCHANGED <<config, budget, keys, now, messagesReceived, tickVars, calVars>>

\* the send of the response settles; after an answer of chat() the memory
\* update starts in the background
SendDone(i, ok) ==
  /\ i \in 1..Len(inflight)
  /\ inflight[i].pc = "send"
  /\ LET h == inflight[i] IN
       IF ~ ok THEN Caught(h, HandlerState, Others(i), "sendDone")
       ELSE IF h.skippedApi THEN Ended(HandlerState, Others(i), "sendDone", h)
       ELSE \E u \in {updateMemoryIfNeeded(HandlerState, h.chatId)} :
              /\ SetHandlerState(u.st)
              /\ inflight' = IF u.next = "done" THEN Others(i)
                             ELSE Append(Others(i), [h EXCEPT !.pc = u.next,
                                                              !.messages = u.messages])
              /\ reply' = <<>>
              /\ op' = Op("sendDone", h.chatId, h.text)
  /\ UNCHANGED <<config, budget, keys, now, messagesReceived, tickVars, calVars>>

\* the send of the apology settles
ApologyDone(i) ==
  /\ i \in 1..Len(inflight)
  /\ inflight[i].pc = "apology"
  /\ Ended(HandlerState, Others(i), "apologyDone", inflight[i])
  /\ UNCHANGED <<config, budget, keys, now, messagesReceived, tickVars, calVars>>

\* how a provider call of the memory update settles
MemoryOutcomes ==
  {[ok |-> TRUE, tokens |-> t] : t \in TokenDraws} \cup {[ok |-> FALSE, tokens |-> 0]}

\* the provider call of extractFacts settles; the summary check follows
FactsDone(i, o) ==
  /\ i \in 1..Len(inflight)
  /\ inflight[i].pc = "facts"
  /\ LET h == inflight[i] IN
     \E u \in {summaryStep([HandlerState EXCEPT !.used = @ + o.tokens],
                           h.chatId, h.messages)} :
       /\ SetHandlerState(u.st)
       /\ inflight' = IF u.next = "done" THEN Others(i)
                      ELSE Append(Others(i), [h EXCEPT !.pc = u.next])
       /\ reply' = <<>>
       /\ op' = Op("factsDone", h.chatId, h.text)
  /\ UNCHANGED <<config, budget, keys, now, messagesReceived, tickVars, calVars>>

\* the provider call of summarizeConversation settles
SummaryDone(i, o) ==
  /\ i \in 1..Len(inflight)
  /\ inflight[i].pc = "summary"
  /\ LET h == inflight[i]
         old == SliceButLast(h.messages, SUMMARY_KEEP)
     IN Ended([HandlerState EXCEPT
                 !.used = @ + o.tokens,
                 !.memory[h.chatId] = IF o.ok THEN old[Len(old)].timestamp ELSE @],
              Others(i), "summaryDone", h)
  /\ UNCHANGED <<config, budget, keys, now, messagesReceived, tickVars, calVars>>

Next ==
  \/ \E c \in MessageChatIds, inb \in Inbound, rnd \in MessageDraws :
       ReceiveMessage(c, inb, rnd)
  \/ \E i \in 1..Len(inflight), ok \in BOOLEAN, est \in DocTokenDraws, rnd \in MessageDraws :
       DownloadDone(i, ok, est, rnd)
  \/ \E i \in 1..Len(inflight), ok \in BOOLEAN : NoticeSent(i, ok)
  \/ \E i \in 1..Len(inflight), o \in CreateOutcomes(TRUE, 0),
        yawn \in BOOLEAN, follow \in BOOLEAN : CreateDone(i, o, yawn, follow)
  \/ \E i \in 1..Len(inflight) : SearchDone(i)
  \/ \E i \in 1..Len(inflight), ok \in BOOLEAN : SendDone(i, ok)
  \/ \E i \in 1..Len(inflight) : ApologyDone(i)
  \/ \E i \in 1..Len(inflight), o \in MemoryOutcomes : FactsDone(i, o)
  \/ \E i \in 1..Len(inflight), o \in MemoryOutcomes : SummaryDone(i, o)

Spec == Init /\ [][Next]_vars

(***************************************************************************)
(* Tick runs: the connection opens (startLizardLoop), the timer fires,     *)
(* deliveries and the digest callback complete, and the router enqueues    *)
(* reminders in between. The runs start two ticks before midnight.         *)
(***************************************************************************)
TickEpoch == DAY_MS - 2 * LIZARD_INTERVAL
ReminderTexts == {"remind me in 0 minutes to stand up",
                  "remind me in 1 minute to rest"}

InitTick ==
  /\ config = [model |-> DefaultModel, maxTokens |-> 4096, maxHistory |-> 50]
  /\ budget = RouterBudget
  /\ used \in {0, 19}
  /\ params = NoParams
  /\ tier = "none"
  /\ energy = 100
  /\ stress = 0
  /\ curiosity = 50
  /\ pendingReminders = <<>>
  /\ lastResponses = <<>>
  /\ now = TickEpoch
  /\ messagesReceived = 0
  /\ qr = <<>>
  /\ ran = <<>>
  /\ InitStore
  /\ InitCalendar
  /\ InitTickDriver
  /\ InitPipeline
  /\ op = Op("init", 0, "")

\* startLizardLoop without the clearInterval of the timer registered before
StartLizardLoopNoClear(onTick, onCleanup) ==
  /\ driver.started < MaxStarts
  /\ driver' = [interval |-> driver.started + 1, started |-> driver.started + 1,
              onTick |-> onTick, onCleanup |-> onCleanup]
  /\ intervals' = intervals \cup {driver.started + 1}
  /\ op' = Op("startLizardLoop", 0, "")
  /\ UNCHANGED <<ladderVars, moodVars, routerVars, now, storeVars, pipeVars,
                 calVars, ticks, resetAt, delivered>>

\* startLizardLoop(sendMessage, onTick, onCleanup)
StartLizardLoop(onTick, onCleanup) ==
  /\ driver.started < MaxStarts
  /\ driver' = [interval |-> driver.started + 1, started |-> driver.started + 1,
              onTick |-> onTick, onCleanup |-> onCleanup]
  /\ intervals' = (intervals \ {driver.interval}) \cup {driver.started + 1}
  /\ op' = Op("startLizardLoop", 0, "")
  /\ UNCHANGED <<ladderVars, moodVars, routerVars, now, storeVars, pipeVars,
                 calVars, ticks, resetAt, delivered>>

\* the callback of the interval timer: runLizardLoop() up to its first await
RunLizardLoop(drift, throws) ==
  /\ intervals # {}
  /\ now < TickEpoch + MaxTicks * LIZARD_INTERVAL
  /\ LET t == now + LIZARD_INTERVAL
         m == regulate(TickState, t, drift)
         due == DueReminders(pendingReminders, t)
     IN /\ now' = t
        /\ energy' = m.energy
        /\ stress' = m.stress
        /\ curiosity' = m.curiosity
        /\ used' = m.used
        /\ resetAt' = m.resetAt
        /\ IF due # <<>>
           THEN /\ ticks' = Append(ticks, [pc |-> "send", now |-> t, due |-> due])
                /\ delivered' = Append(delivered, Head(due))
                /\ UNCHANGED <<pendingReminders, lastResponses>>
           ELSE /\ AfterReminders([pc |-> "send", now |-> t, due |-> due],
                                  ticks, <<>>, throws)
                /\ UNCHANGED delivered
  /\ op' = Op("runLizardLoop", 0, "")
  /\ UNCHANGED <<config, budget, params, tier, messagesReceived, qr, ran,
                 storeVars, pipeVars, calVars, driver, intervals>>

\* the send awaited by the i-th suspended tick settles (a rejection is caught
\* and logged): the next due reminder is sent, or the reminder step ends
ReminderSent(i, throws) ==
  /\ i \in 1..Len(ticks)
  /\ ticks[i].pc = "send"
  /\ LET tk == ticks[i]
         rest == Tail(tk.due)
     IN IF rest # <<>>
        THEN /\ ticks' = [ticks EXCEPT ![i].due = rest]
             /\ delivered' = Append(delivered, Head(rest))
             /\ UNCHANGED <<pendingReminders, lastResponses>>
        ELSE /\ AfterReminders(tk, SubSeq(ticks, 1, i - 1),
                               SubSeq(ticks, i + 1, Len(ticks)), throws)
             /\ UNCHANGED delivered
  /\ op' = Op("reminderSent", 0, "")
  /\ UNCHANGED <<ladderVars, moodVars, messagesReceived, qr, ran, now,
                 storeVars, pipeVars, calVars, driver, intervals, resetAt>>

\* the digest callback awaited by the i-th suspended tick settles: the tick
\* runs to its end, or ends at once when the callback rejected
OnTickDone(i, ok, throws) ==
  /\ i \in 1..Len(ticks)
  /\ ticks[i].pc = "onTick"
  /\ ticks' = SubSeq(ticks, 1, i - 1) \o SubSeq(ticks, i + 1, Len(ticks))
  /\ lastResponses' = IF ok THEN cleanupStep(lastResponses, driver.onCleanup, throws)
                      ELSE lastResponses
  /\ op' = Op("onTickDone", 0, "")
  /\ UNCHANGED <<ladderVars, moodVars, pendingReminders, messagesReceived, qr,
                 ran, now, storeVars, pipeVars, calVars, driver, intervals,
                 resetAt, delivered>>

NextTick ==
  \/ \E onTick \in BOOLEAN, onCleanup \in BOOLEAN : StartLizardLoop(onTick, onCleanup)
  \/ \E drift \in CuriosityDrifts, throws \in BOOLEAN : RunLizardLoop(drift, throws)
  \/ \E i \in 1..Len(ticks), throws \in BOOLEAN : ReminderSent(i, throws)
  \/ \E i \in 1..Len(ticks), ok \in BOOLEAN, throws \in BOOLEAN : OnTickDone(i, ok, throws)
  \/ \E c \in ChatIds, text \in ReminderTexts : RouterCall(c, text)

SpecTick == InitTick /\ [][NextTick]_vars

(***************************************************************************)
(* Midnight runs: the tick runs of a process without reminders, in time    *)
(* zones whose clock changes (or does not) in the night the runs cover.    *)
(***************************************************************************)
\* London in the night the clocks go forward and the Azores in the night
\* they go back (both change at 01:00 UTC, from a local time equal to UTC);
\* Jakarta, seven hours ahead of UTC
LondonSpring == [offset |-> 0, shiftAt |-> DAY_MS + HOUR_MS, shift |-> HOUR_MS]
AzoresAutumn == [offset |-> 0, shiftAt |-> DAY_MS + HOUR_MS, shift |-> 0 - HOUR_MS]
Jakarta == [offset |-> 7 * HOUR_MS, shiftAt |-> 0, shift |-> 0]
RolloverZones == {UTC, LondonSpring, AzoresAutumn, Jakarta}

InitRollover ==
  /\ config = [model |-> DefaultModel, maxTokens |-> 4096, maxHistory |-> 50]
  /\ budget = RouterBudget
  /\ used \in {0, 5, 19}
  /\ params = NoParams
  /\ tier = "none"
  /\ energy = 100
  /\ stress \in {0, 30}
  /\ curiosity = 50
  /\ pendingReminders = <<>>
  /\ lastResponses = <<>>
  /\ zone \in RolloverZones
  /\ now = TickEpoch
  /\ messagesReceived = 0
  /\ qr = <<>>
  /\ ran = <<>>
  /\ InitStore
  /\ calendar = <<>>
  /\ digestsSent = <<>>
  /\ pendingContactTag = <<>>
  /\ collected = <<>>
  /\ digests = <<>>
  /\ InitTickDriver
  /\ InitPipeline
  /\ op = Op("init", 0, "")

NextRollover ==
  \/ \E onTick \in BOOLEAN, onCleanup \in BOOLEAN : StartLizardLoop(onTick, onCleanup)
  \/ \E drift \in CuriosityDrifts, throws \in BOOLEAN : RunLizardLoop(drift, throws)
  \/ \E i \in 1..Len(ticks), ok \in BOOLEAN, throws \in BOOLEAN : OnTickDone(i, ok, throws)

SpecRollover == InitRollover /\ [][NextRollover]_vars

(***************************************************************************)
(* Startup runs: the process starts with the daily budget its environment  *)
(* configures (parseInt of OPENCLAW_DAILY_TOKEN_BUDGET, passed on as it    *)
(* is) and then serves messages and runs its ticks.                        *)
(***************************************************************************)
\* the values parseInt yields for "-1", "0", "1" and "20"
EnvBudgets == {0 - 1, 0, 1, RouterBudget}

InitStartup ==
  /\ config = [model |-> DefaultModel, maxTokens |-> 4096, maxHistory |-> 50]
  /\ budget \in EnvBudgets
  /\ used = 0
  /\ params = NoParams
  /\ tier = "none"
  /\ energy = 100
  /\ stress = 0
  /\ curiosity = 50
  /\ pendingReminders = <<>>
  /\ lastResponses = <<>>
  /\ now = TickEpoch
  /\ messagesReceived = 0
  /\ qr = <<>>
  /\ ran = <<>>
  /\ InitStore
  /\ InitCalendar
  /\ InitTickDriver
  /\ InitPipeline
  /\ op = Op("init", 0, "")

\* the messages of these runs: a greeting and one no pattern matches
StartupTexts == {"hi!", "tell me a story"}

NextStartup ==
  \/ \E c \in ChatIds, text \in StartupTexts : RouterCall(c, text)
  \/ \E onTick \in BOOLEAN, onCleanup \in BOOLEAN : StartLizardLoop(onTick, onCleanup)
  \/ \E drift \in CuriosityDrifts, throws \in BOOLEAN : RunLizardLoop(drift, throws)
  \/ \E i \in 1..Len(ticks), ok \in BOOLEAN, throws \in BOOLEAN : OnTickDone(i, ok, throws)

SpecStartup == InitStartup /\ [][NextStartup]_vars

(***************************************************************************)
(* Mood runs: messages, provider answers and failures, and ticks, started  *)
(* with the connection open (startLizardLoop(send) was called) and moods   *)
(* at the ends of their range.                                             *)
(***************************************************************************)
\* the messages of these runs: one the router answers, one for chat()
MoodInbound == {[text |-> "hi!", media |-> "none"],
                [text |-> "tell me a story", media |-> "none"]}

InitMood ==
  /\ config = [model |-> DefaultModel, maxTokens |-> 4096,
               maxHistory |-> PipelineMaxHistory]
  /\ budget = RouterBudget
  /\ keys = [api |-> TRUE, tavily |-> FALSE]
  /\ used \in {0, 19}
  /\ params = NoParams
  /\ tier = "none"
  /\ \/ energy = 0 /\ stress = 0 /\ curiosity = 1
     \/ energy = 100 /\ stress = 95 /\ curiosity = 99
  /\ pendingReminders = <<>>
  /\ lastResponses = <<>>
  /\ now = TickEpoch + LIZARD_INTERVAL
  /\ messagesReceived = 0
  /\ qr = <<>>
  /\ ran = <<>>
  /\ InitStore
  /\ InitCalendar
  /\ driver = [interval |-> 1, started |-> 1, onTick |-> FALSE, onCleanup |-> FALSE]
  /\ intervals = {1}
  /\ ticks = <<>>
  /\ resetAt = getNextMidnight(now, zone)
  /\ delivered = <<>>
  /\ inflight = <<>>
  /\ apiErrors = 0
  /\ rateLimitResetAt = 0
  /\ idleSince = TickEpoch - FIVE_MINUTES
  /\ providerCalls = 0
  /\ reply = <<>>
  /\ memory = [c \in SessionChatIds |-> 0]
  /\ op = Op("init", 0, "")

NextMood ==
  \/ \E c \in MessageChatIds, inb \in MoodInbound, rnd \in MessageDraws :
       ReceiveMessage(c, inb, rnd)
  \/ \E i \in 1..Len(inflight), o \in CreateOutcomes(FALSE, 0) :
       CreateDone(i, o, FALSE, FALSE)
  \/ \E i \in 1..Len(inflight), ok \in BOOLEAN : SendDone(i, ok)
  \/ \E i \in 1..Len(inflight) : ApologyDone(i)
  \/ \E i \in 1..Len(inflight), o \in MemoryOutcomes : FactsDone(i, o)
  \/ \E drift \in CuriosityDrifts : RunLizardLoop(drift, FALSE)

SpecMood == InitMood /\ [][NextMood]_vars

(***************************************************************************)
(* C1 - C3: the budget ladder                                              *)
(***************************************************************************)
Probed == op.name = "getBudgetAwareParams"

\* C1: for used >= 0 and budget > 0 the ladder returns, by ratio used/budget:
\* >= 1.0 block; [0.9, 1.0) haiku, 500 tokens, history 5; [0.75, 0.9) the
\* configured model, 1024 tokens, history 10; [0.5, 0.75) the configured model
\* and maxTokens, history 20; below 0.5 the configured values; no block
\* below 1.0.
C1_LadderBands ==
  (Probed /\ budget > 0) =>
    /\ (used >= budget) => params.shouldBlock
    /\ (10 * used >= 9 * budget /\ used < budget) =>
         params = [model |-> HaikuModel, maxTokens |-> 500,
                   maxHistory |-> 5, shouldBlock |-> FALSE]
    /\ (4 * used >= 3 * budget /\ 10 * used < 9 * budget) =>
         params = [model |-> config.model, maxTokens |-> 1024,
                   maxHistory |-> 10, shouldBlock |-> FALSE]
    /\ (2 * used >= budget /\ 4 * used < 3 * budget) =>
         params = [model |-> config.model, maxTokens |-> config.maxTokens,
                   maxHistory |-> 20, shouldBlock |-> FALSE]
    /\ (2 * used < budget) =>
         params = [model |-> config.model, maxTokens |-> config.maxTokens,
                   maxHistory |-> config.maxHistory, shouldBlock |-> FALSE]

\* every band of the ladder is probed, at its lower edge
C1_Witness ==
  /\ Probed
  /\ budget = 20
  /\ used = 15
  /\ params.maxTokens = 1024

\* C2: used = budget blocks, used = budget - 1 does not.
C2_BlockBoundary ==
  (Probed /\ budget > 0) =>
    /\ (used = budget) => params.shouldBlock
    /\ (used = budget - 1) => ~ params.shouldBlock

C2_Witness ==
  /\ Probed
  /\ budget = 20
  /\ used = 19
  /\ ~ params.shouldBlock

\* restrictiveness order of the five bands
TierRank(t) ==
  CASE t = "normal" -> 0
    [] t = "t50" -> 1
    [] t = "t75" -> 2
    [] t = "t90" -> 3
    [] t = "blocked" -> 4

\* C3: from one budget state to another with used not larger and budget not
\* smaller, the selected tier is never more restrictive.
C3_LadderMonotone ==
  [][ ( /\ Probed
        /\ op'.name = "getBudgetAwareParams"
        /\ used' <= used
        /\ budget' >= budget )
      => TierRank(tier') <= TierRank(tier) ]_vars

\* a probe at 95% that followed a probe of a blocked state
C3_Witness ==
  /\ Probed
  /\ tier = "t90"
  /\ used = 19
  /\ budget = 20

(***************************************************************************)
(* C4: chat() under an exhausted budget                                    *)
(***************************************************************************)
\* C4: when used/budget >= 1.0 as a message reaches chat(), chat returns the
\* fixed budget reply, starts no provider call, and leaves the session store,
\* tokens.used and the mood registers as they were.
C4_BlockedChatFrame ==
  [][ (op'.name = "chat" /\ UsageAtLeast(used, budget, 1, 1)) =>
        /\ reply' = BudgetReply
        /\ providerCalls' = providerCalls
        /\ sessions' = sessions
        /\ disk' = disk
        /\ pendingSaves' = pendingSaves
        /\ timers' = timers
        /\ used' = used
        /\ energy' = energy
        /\ stress' = stress
        /\ curiosity' = curiosity ]_vars

\* a message reached chat() with the budget spent and got the budget reply
C4_Witness ==
  /\ op.name = "chat"
  /\ used >= budget
  /\ reply = BudgetReply
  /\ \E i \in 1..Len(inflight) : inflight[i].pc = "send" /\ ~ inflight[i].skippedApi

(***************************************************************************)
(* C5 - C6: router precedence                                              *)
(***************************************************************************)
RouterCalled == op.name = "tryQuickResponse"

\* the replies entry p of quickPatterns can give
RepliesOf(p) ==
  CASE p = 1 -> {<<GREETING_RESPONSES[i]>> : i \in 1..4}
    [] p = 2 -> {<<THANKS_RESPONSES[i]>> : i \in 1..4}
    [] p = 3 -> {<<"It's", "<time>">>}
    [] p = 4 -> {<<"It's", "<date>">>}
    [] p = 5 -> UNION {{<<HOW_ARE_YOU_RESPONSES[k][i]>> : i \in 1..3} :
                        k \in {"lowEnergy", "highStress", "highCuriosity", "normal"}}
    [] p = 6 -> {NothingSaidMsg}
                  \cup {<<"I said:">> \o lastResponses[i].text : i \in 1..Len(lastResponses)}
    [] OTHER -> {<<"Got it! I'll remind you in">> \o TimeStr(m) \o <<"to:", t>> :
                   m \in {0, 1, 5, 120}, t \in {"call mom", "stretch", "stand up", "rest"}}

\* the entries that answer a text: every matching entry but the reminder
\* entry on a text without a valid unit and task
Answering(text) ==
  {p \in Matches(text) : p # 7 \/ ReminderCaptures(text).ok}

\* C5: with used/budget >= 1.0, tryQuickResponse returns the reply of the first
\* quick pattern that answers the text, the 'exhausted' message when none
\* does, and never null.
C5_ExhaustedPrecedence ==
  (RouterCalled /\ budget > 0 /\ used >= budget) =>
    /\ qr # NoAnswer
    /\ IF Answering(op.text) = {}
       THEN qr = ExhaustedMsg
       ELSE LET first == CHOOSE p \in Answering(op.text) :
                           \A q \in Answering(op.text) : p <= q
            IN qr \in RepliesOf(first)

\* exhausted budget and a greeting: the greeting is answered
C5_Witness ==
  /\ RouterCalled
  /\ used >= budget
  /\ op.text = "hi!"
  /\ qr \in RepliesOf(1)

\* C6: whenever stress >= 80 at the call, for every text and usage ratio, the
\* reply is the 'taking a breath' message, stress drops by exactly 10 and no
\* pattern handler runs.
C6_StressPrecedence ==
  [][ (op'.name = "tryQuickResponse" /\ stress >= 80) =>
        /\ qr' = BreathMsg
        /\ stress' = stress - 10
        /\ ran' = <<>> ]_vars

(***************************************************************************)
(* C7 - C9: session store                                                  *)
(***************************************************************************)
\* what a session holds when no append was lost: the appended messages,
\* cut to maxHistory
Retained(c) == LET a == appended[c] IN
  IF Len(a) > config.maxHistory THEN SliceLast(a, config.maxHistory) ELSE a

\* the conversations created and appended to
Appended == {c \in SessionChatIds : appended[c] # <<>>}
\* the time of the last append to c
LastAppend(c) == appended[c][Len(appended[c])].timestamp

\* C7: once MAX_CACHED_SESSIONS + 1 conversations have been created and
\* appended to, the cache holds exactly the MAX_CACHED_SESSIONS most recently
\* active ones, and the next access to the evicted one returns the messages
\* it had before eviction.
C7_EvictionCorrect ==
  [][ (Cardinality(Appended) = MAX_CACHED_SESSIONS + 1) =>
        /\ Len(sessions) = MAX_CACHED_SESSIONS
        /\ \A c \in Appended \ CacheIds(sessions) :
             \A i \in 1..Len(sessions) : sessions[i].lastActivity >= LastAppend(c)
        /\ \A c \in Appended \ CacheIds(sessions) :
             (op'.name \in {"getConversationHistory", "addToSession"} /\ op'.chatId = c)
               => loaded'.messages = Retained(c) ]_vars

\* C8: the appends made to a conversation before its scheduled flush fires
\* cause exactly one write, of the session as it is after the last of them.
C8_DebounceCoalescing ==
  [][ (op'.name = "flush" /\ appended[op'.chatId] # <<>>) =>
        /\ disk'[op'.chatId] # <<>>
        /\ disk'[op'.chatId][1].messages = Retained(op'.chatId)
        /\ \A i \in 1..Len(timers') : timers'[i].chatId # op'.chatId ]_vars

\* C9: a flush pending when clearSession(id) runs never writes: with no append
\* to id since the clear and no timer left for id, there is no file for id.
C9_ClearCancelsFlush ==
  \A c \in SessionChatIds :
    (appended[c] = <<>> /\ \A i \in 1..Len(timers) : timers[i].chatId # c)
      => disk[c] = <<>>

(***************************************************************************)
(* C10: the tick driver                                                    *)
(***************************************************************************)
\* C10: at no time are two executions of runLizardLoop in progress: a tick
\* whose deliveries outlast the timer interval is not overlapped by a second.
C10_NoOverlappingTicks == Len(ticks) <= 1

(***************************************************************************)
(* C11 - C12: the reminder queue                                           *)
(***************************************************************************)
\* a reminder set with a delay of 0 minutes
ZeroDelay(r) == r.dueAt = r.setAt

\* the times t whose tick (the one that took its now at t) ends its reminder
\* step in this step
EndingReminderSteps ==
  IF delivered' # delivered THEN {}
  ELSE IF op'.name = "runLizardLoop" THEN {now'}
  ELSE IF op'.name = "reminderSent"
  THEN {ticks[i].now : i \in {j \in 1..Len(ticks) :
                                /\ ticks[j].pc = "send"
                                /\ Len(ticks[j].due) = 1
                                /\ ticks' = SubSeq(ticks, 1, j - 1)
                                             \o (IF driver.onTick
                                                 THEN <<[pc |-> "onTick", now |-> ticks[j].now, due |-> <<>>]>>
                                                 ELSE <<>>)
                                             \o SubSeq(ticks, j + 1, Len(ticks))}}
  ELSE {}

\* C11: a reminder enqueued with a delay of 0 minutes is among the due
\* reminders of the next tick that starts (it is the one being sent or waits
\* in that tick's list), it has left the queue when that tick's reminder step
\* ends, and no later tick attempts it again: every router call enqueues at
\* most one reminder, so there are never more delivery attempts of 0-minute
\* reminders than router calls.
C11_ZeroDelayFiresOnce ==
  [][/\ op'.name = "runLizardLoop"
        => \A k \in 1..Len(pendingReminders) :
             ZeroDelay(pendingReminders[k])
             => /\ ticks' # <<>>
                /\ \E j \in 1..Len(ticks'[Len(ticks')].due) :
                     ticks'[Len(ticks')].due[j] = pendingReminders[k]
     /\ \A t \in EndingReminderSteps :
          \A k \in 1..Len(pendingReminders') :
               ZeroDelay(pendingReminders'[k]) => pendingReminders'[k].setAt > t
     /\ Len(SelectSeq(delivered', ZeroDelay)) <= messagesReceived']_vars

\* C12: over any interleaving of ticks no reminder gets a second delivery
\* attempt (there are never more attempts than reminders enqueued, one per
\* router call at most); when a tick's reminder step ends every reminder due
\* at that tick's time has left the queue, whether its send failed or not;
\* and no step of a tick changes the reminders that are not yet due.
C12_ReminderAtMostOnce ==
  [][/\ Len(delivered') <= messagesReceived'
     /\ \A t \in EndingReminderSteps : DueReminders(pendingReminders', t) = <<>>
     /\ op'.name \in {"runLizardLoop", "reminderSent", "onTickDone"}
          => LaterReminders(pendingReminders', now')
               = LaterReminders(pendingReminders, now')]_vars

(***************************************************************************)
(* C16: the midnight rollover                                              *)
(***************************************************************************)
\* C16 as stated: with resetAt = T, a tick at a time before T leaves
\* tokens.used and resetAt unchanged; a tick at a time >= T sets tokens.used
\* to 0 and moves resetAt exactly 24 hours on, when it runs within the day
\* that follows T.
C16_MidnightRollover ==
  [][op'.name = "runLizardLoop"
     => /\ now' < resetAt => (used' = used /\ resetAt' = resetAt)
        /\ now' >= resetAt
           => /\ used' = 0
              /\ now' < resetAt + DAY_MS => resetAt' = resetAt + DAY_MS]_vars

\* the local clock changes between the instants a and b
ClockChanges(z, a, b) == z.shift # 0 /\ a < z.shiftAt /\ z.shiftAt <= b

\* C16 as amended: a tick before T leaves tokens.used and resetAt unchanged;
\* a tick at a time >= T sets tokens.used to 0 and moves resetAt to the next
\* local midnight after the tick: the start of the local day after the
\* tick's, later than the tick, and exactly 24 hours after T when the tick
\* runs within 24 hours of T and the local clock does not change in between.
C16_MidnightRolloverLocal ==
  [][op'.name = "runLizardLoop"
     => /\ now' < resetAt => (used' = used /\ resetAt' = resetAt)
        /\ now' >= resetAt
           => /\ used' = 0
              /\ resetAt' > now'
              /\ LocalTime(zone, resetAt') % DAY_MS = 0
              /\ LocalTime(zone, resetAt') \div DAY_MS
                   = LocalTime(zone, now') \div DAY_MS + 1
              /\ (now' < resetAt + DAY_MS
                  /\ ~ ClockChanges(zone, resetAt, resetAt + DAY_MS + HOUR_MS))
                 => resetAt' = resetAt + DAY_MS]_vars

\* a tick at midnight has reset the budget in the night the clocks go forward:
\* the next midnight is 23 hours away
C16_Witness ==
  /\ op.name = "runLizardLoop"
  /\ zone = LondonSpring
  /\ now = DAY_MS
  /\ used = 0
  /\ resetAt = 2 * DAY_MS - HOUR_MS

C19_BudgetRejectedAtStartup ==
  op.name \in {"tryQuickResponse", "runLizardLoop"} => budget > 0

(***************************************************************************)
(* C17: the mood registers                                                 *)
(***************************************************************************)
\* C17: after any sequence of ticks, quick responses, provider successes and
\* provider failures, energy, stress and curiosity each lie in 0..100.
C17_MoodBounds ==
  /\ energy \in 0..100
  /\ stress \in 0..100
  /\ curiosity \in 0..100

\* a provider failure has met stress 95 and a tick curiosity 99: after the
\* tick both registers stand at the end of their range
C17_Witness ==
  /\ apiErrors > 0
  /\ stress = 100
  /\ curiosity = 100
  /\ op.name = "runLizardLoop"

(***************************************************************************)
(* Calendar (calendar.ts). A date string "YYYY-MM-DD" is the number of its *)
(* day, counted from 1970-01-01; a time string "HH:MM" is its minute of    *)
(* the day. Both orders agree with the order of the strings.               *)
(***************************************************************************)
MINUTE_MS == 60 * 1000
\* 1970-01-01 was a Thursday (0 = Sunday .. 6 = Saturday)
EpochWeekday == 4
\* the fields a CalendarEvent leaves undefined
NoDay == 0 - 1
NoDate == 0 - 1

Ana == "ana@s.whatsapp.net"
Ben == "ben@s.whatsapp.net"
Jids == {Ana, Ben}

\* HH * 60 + MM of "HH:MM"
HHMM(h, m) == h * 60 + m

Event(id, recurrence, dayOfWeek, time, date, taggedUsers) ==
  [id |-> id, recurrence |-> recurrence, dayOfWeek |-> dayOfWeek,
   time |-> time, date |-> date, taggedUsers |-> taggedUsers]

\* the days of the calendar runs: 1970-01-08, a Thursday, and the next day
Thursday8 == 7
Friday9 == 8

\* the events the commands of the runs have stored
EventPool ==
  { Event("standup", "daily", NoDay, HHMM(9, 0), NoDate, <<Ana, Ben>>),
    Event("gym", "weekly", 4, HHMM(8, 0), NoDate, <<Ana>>),
    Event("review", "weekly", 5, HHMM(8, 0), NoDate, <<Ben, Ana>>),
    Event("dentist", "once", NoDay, HHMM(7, 30), Thursday8, <<Ana>>),
    Event("launch", "once", NoDay, HHMM(10, 0), Friday9, <<Ben>>),
    Event("draft", "daily", NoDay, HHMM(6, 0), NoDate, <<>>) }

\* date.getTime() of an instant is the instant; getDateStr(date) is the
\* date of toISOString(), the day in UTC
getDateStr(t) == t \div DAY_MS

\* getTimeStr(date): the hour and minute of the local clock
getTimeStr(z, t) == (LocalTime(z, t) % DAY_MS) \div MINUTE_MS

\* date.getDay(): the weekday of the local clock
getDay(z, t) == (LocalTime(z, t) \div DAY_MS + EpochWeekday) % 7

Abs(n) == IF n < 0 THEN 0 - n ELSE n

\* isTimeWithinWindow(current, target, windowSeconds)
isTimeWithinWindow(current, target, windowSeconds) ==
  LET currentSecs == current * 60
      targetSecs == target * 60
      diff == Abs(currentSecs - targetSecs)
  IN diff <= windowSeconds \/ (86400 - diff) <= windowSeconds

\* result[jid].push(evt) on a Record, whose keys keep their insertion order
PushFor(result, jid, evt) ==
  IF \E k \in 1..Len(result) : result[k].jid = jid
  THEN [k \in 1..Len(result) |->
          IF result[k].jid = jid
          THEN [result[k] EXCEPT !.events = Append(@, evt)]
          ELSE result[k]]
  ELSE Append(result, [jid |-> jid, events |-> <<evt>>])

RECURSIVE PushForAll(_, _, _)
PushForAll(result, users, evt) ==
  IF users = <<>> THEN result
  ELSE PushForAll(PushFor(result, Head(users), evt), Tail(users), evt)

\* events.sort((a, b) => a.time.localeCompare(b.time)): the sort is stable
RECURSIVE sortByTime(_)
sortByTime(events) ==
  IF events = <<>> THEN <<>>
  ELSE LET init == sortByTime(SubSeq(events, 1, Len(events) - 1))
           last == events[Len(events)]
           k == Cardinality({j \in 1..Len(init) : init[j].time <= last.time})
       IN SubSeq(init, 1, k) \o <<last>> \o SubSeq(init, k + 1, Len(init))

\* the isToday of collectTodayEvents with the weekly test "dayOfWeek !== undefined"
isTodayAnyWeekday(evt, currentDay, todayStr) ==
  \/ evt.recurrence = "daily"
  \/ evt.recurrence = "weekly" /\ evt.dayOfWeek # NoDay
  \/ evt.recurrence = "once" /\ evt.date = todayStr

\* the isToday of collectTodayEvents, the matches of collectWeekEvents
isToday(evt, currentDay, todayStr) ==
  \/ evt.recurrence = "daily"
  \/ evt.recurrence = "weekly" /\ evt.dayOfWeek = currentDay
  \/ evt.recurrence = "once" /\ evt.date = todayStr

RECURSIVE collectLoop(_, _, _, _)
collectLoop(events, currentDay, todayStr, result) ==
  IF events = <<>> THEN result
  ELSE collectLoop(Tail(events), currentDay, todayStr,
                   IF isToday(Head(events), currentDay, todayStr)
                   THEN PushForAll(result, Head(events).taggedUsers, Head(events))
                   ELSE result)

\* collectTodayEvents(events, currentDay, todayStr)
collectTodayEvents(events, currentDay, todayStr) ==
  LET result == collectLoop(events, currentDay, todayStr, <<>>)
  IN [k \in 1..Len(result) |-> [result[k] EXCEPT !.events = sortByTime(@)]]

\* the calendar loadCalendar() returns when calendar.json cannot be read
DefaultCalendar ==
  [events |-> <<>>,
   digestConfig |-> [dailyTime |-> HHMM(7, 0), weeklyDay |-> 0, weeklyTime |-> HHMM(18, 0)],
   lastDailyDigest |-> [j \in Jids |-> 0],
   lastWeeklyDigest |-> [j \in Jids |-> 0]]

\* loadCalendar()
loadCalendar(file) == IF ReadThrows(file) THEN DefaultCalendar ELSE file[1]

(***************************************************************************)
(* Collection probes: collectTodayEvents is a pure function of the event   *)
(* list, the weekday and the date.                                         *)
(***************************************************************************)
MaxEvents == 3

RECURSIVE EventLists(_)
EventLists(n) ==
  IF n = 0 THEN {<<>>}
  ELSE LET shorter == EventLists(n - 1)
       IN shorter \cup {Append(l, e) : l \in {s \in shorter : Len(s) = n - 1},
                                       e \in EventPool}

CollectDates == {Thursday8, Friday9, Friday9 + 1}

InitCollect ==
  /\ config = [model |-> DefaultModel, maxTokens |-> 4096, maxHistory |-> 50]
  /\ budget = RouterBudget
  /\ used = 0
  /\ params = NoParams
  /\ tier = "none"
  /\ energy = 100
  /\ stress = 0
  /\ curiosity = 50
  /\ pendingReminders = <<>>
  /\ lastResponses = <<>>
  /\ now = TickEpoch
  /\ messagesReceived = 0
  /\ qr = <<>>
  /\ ran = <<>>
  /\ InitStore
  /\ zone = UTC
  /\ \E events \in EventLists(MaxEvents) :
       calendar = <<[DefaultCalendar EXCEPT !.events = events]>>
  /\ digestsSent = <<>>
  /\ pendingContactTag = <<>>
  /\ collected = <<>>
  /\ digests = <<>>
  /\ InitTickDriver
  /\ InitPipeline
  /\ op = Op("init", 0, "")

\* collectTodayEvents(loadCalendar().events, currentDay, todayStr)
CollectTodayEvents(currentDay, todayStr) ==
  /\ \E events \in {loadCalendar(calendar).events} :
       collected' = <<[events |-> events, currentDay |-> currentDay,
                       todayStr |-> todayStr,
                       result |-> collectTodayEvents(events, currentDay, todayStr)]>>
  /\ op' = Op("collectTodayEvents", 0, "")
  /\ UNCHANGED <<ladderVars, moodVars, routerVars, now, storeVars, tickVars,
                 pipeVars, zone, calendar, digestsSent, pendingContactTag, digests>>

NextCollect ==
  \E currentDay \in 0..6, todayStr \in CollectDates :
    CollectTodayEvents(currentDay, todayStr)

SpecCollect == InitCollect /\ [][NextCollect]_vars

(***************************************************************************)
(* C14                                                                     *)
(***************************************************************************)
Range(seq) == {seq[k] : k \in 1..Len(seq)}

\* the result lists evt for jid
Listed(result, jid, evt) ==
  \E k \in 1..Len(result) : result[k].jid = jid /\ evt \in Range(result[k].events)

\* C14: collectTodayEvents lists an event for a recipient iff the recipient is
\* tagged on it and the event is due: a daily event on every day, a weekly
\* event on the days of its dayOfWeek, a once event on the day of its date.
C14_RecurrenceMatching ==
  \A c \in Range(collected), jid \in Jids, evt \in EventPool :
    Listed(c.result, jid, evt)
      <=> /\ evt \in Range(c.events)
          /\ jid \in Range(evt.taggedUsers)
          /\ CASE evt.recurrence = "daily" -> TRUE
               [] evt.recurrence = "weekly" -> evt.dayOfWeek = c.currentDay
               [] evt.recurrence = "once" -> evt.date = c.todayStr

\* a call on a Thursday whose list holds the Thursday event, the Friday event
\* and the event of that date: the first and the last are listed for Ana, the
\* Friday event for nobody
C14_Witness ==
  \E c \in Range(collected) :
    /\ c.currentDay = 4
    /\ \E g \in Range(c.events) : g.id = "gym" /\ Listed(c.result, Ana, g)
    /\ \E d \in Range(c.events) : d.id = "dentist" /\ Listed(c.result, Ana, d)
    /\ \E r \in Range(c.events) :
         r.id = "review" /\ ~Listed(c.result, Ana, r) /\ ~Listed(c.result, Ben, r)

(***************************************************************************)
(* Digest processing (calendar.ts, processCalendarDigests) as the tick     *)
(* runs it: lizard-brain.ts awaits it as _onTick, and the sweep of the     *)
(* pending contact tags follows as _onCleanup.                             *)
(***************************************************************************)
DIGEST_WINDOW == 60
TWENTY_THREE_HOURS == 23 * 60 * 60 * 1000
PENDING_TAG_TTL == 120000

\* setPendingContactTag(chatId, eventId) at time t
setPendingContactTag(map, chatId, eventId, t) ==
  LET entry == [chatId |-> chatId, eventId |-> eventId,
                expiresAt |-> t + PENDING_TAG_TTL]
  IN IF \E i \in 1..Len(map) : map[i].chatId = chatId
     THEN [i \in 1..Len(map) |-> IF map[i].chatId = chatId THEN entry ELSE map[i]]
     ELSE Append(map, entry)

\* step 3.6 of the tick: the entries with Date.now() > expiresAt are deleted
sweepPendingContactTag(map, t) == SelectSeq(map, LAMBDA e : ~(t > e.expiresAt))

\* Object.keys of a collectTodayEvents or collectWeekEvents result
JidsOf(result) == [k \in 1..Len(result) |-> result[k].jid]

RECURSIVE weekEventLoop(_, _, _, _)
weekEventLoop(events, day, dateStr, result) ==
  IF events = <<>> THEN result
  ELSE weekEventLoop(Tail(events), day, dateStr,
                     IF isToday(Head(events), day, dateStr)
                     THEN PushForAll(result, Head(events).taggedUsers,
                                     [day |-> day, evt |-> Head(events)])
                     ELSE result)

RECURSIVE weekDayLoop(_, _, _, _, _)
weekDayLoop(events, startDay, startDate, d, result) ==
  IF d = 7 THEN result
  ELSE weekDayLoop(events, startDay, startDate, d + 1,
                   weekEventLoop(events, (startDay + d) % 7,
                                 getDateStr(startDate + d * DAY_MS), result))

\* collectWeekEvents(events, startDay, startDateStr): who has an event on one
\* of the seven days from startDay on, and which. new Date(str + "T00:00:00")
\* is midnight of the local clock. (The order inside a day is not modelled:
\* it only forms the text of the message.)
collectWeekEvents(events, startDay, startDateStr, z) ==
  weekDayLoop(events, startDay, InstantOf(z, startDateStr * DAY_MS), 0, <<>>)

\* the filter of cleanupPastEvents(cal) at time t
cleanupPastEvents(events, t) ==
  SelectSeq(events, LAMBDA evt : evt.recurrence # "once" \/ evt.date >= getDateStr(t))

\* what a run of processCalendarDigests leaves when it stops: the execution
\* suspended at a send (or none), calendar.json, and whether it threw
DigestStop(exec, file, threw) == [exec |-> exec, file |-> file, threw |-> threw]

\* digestCleanup with "cleanupPastEvents(cal); saveCalendar(cal);"
digestCleanupAlwaysSaves(cal, file, t, fails) ==
  IF fails THEN DigestStop(<<>>, file, TRUE)
  ELSE DigestStop(<<>>, <<[cal EXCEPT !.events = cleanupPastEvents(cal.events, t)]>>, FALSE)

\* lines 310-315: the past events are dropped and, when some were, the
\* calendar is saved; saveCalendar throws when the write fails
digestCleanup(cal, file, t, fails) ==
  LET kept == cleanupPastEvents(cal.events, t)
  IN IF kept = cal.events THEN DigestStop(<<>>, file, FALSE)
     ELSE IF fails THEN DigestStop(<<>>, file, TRUE)
     ELSE DigestStop(<<>>, <<[cal EXCEPT !.events = kept]>>, FALSE)

\* lines 278-307: the weekly loop from the recipient Head(d.todo) on
RECURSIVE weeklyLoop(_, _, _, _)
weeklyLoop(d, file, t, fails) ==
  IF d.todo = <<>>
  THEN IF d.saved /\ fails THEN DigestStop(<<>>, file, TRUE)
       ELSE digestCleanup(d.cal, IF d.saved THEN <<d.cal>> ELSE file, t, fails)
  ELSE IF d.now - d.cal.lastWeeklyDigest[Head(d.todo)] < TWENTY_THREE_HOURS
       THEN weeklyLoop([d EXCEPT !.todo = Tail(@)], file, t, fails)
       ELSE DigestStop(<<d>>, file, FALSE)

\* lines 273-276
weeklyStart(d, file, t, fails) ==
  IF /\ d.currentDay = d.cal.digestConfig.weeklyDay
     /\ isTimeWithinWindow(d.currentTime, d.cal.digestConfig.weeklyTime, DIGEST_WINDOW)
  THEN weeklyLoop([d EXCEPT !.phase = "weekly", !.saved = FALSE,
                            !.todo = JidsOf(collectWeekEvents(d.cal.events, d.currentDay,
                                                              d.todayStr, d.zone))],
                  file, t, fails)
  ELSE digestCleanup(d.cal, file, t, fails)

\* lines 251-270: the daily loop from the recipient Head(d.todo) on
RECURSIVE dailyLoop(_, _, _, _)
dailyLoop(d, file, t, fails) ==
  IF d.todo = <<>>
  THEN IF d.saved /\ fails THEN DigestStop(<<>>, file, TRUE)
       ELSE weeklyStart(d, IF d.saved THEN <<d.cal>> ELSE file, t, fails)
  ELSE IF d.todayStr = getDateStr(d.cal.lastDailyDigest[Head(d.todo)])
       THEN dailyLoop([d EXCEPT !.todo = Tail(@)], file, t, fails)
       ELSE DigestStop(<<d>>, file, FALSE)

\* processCalendarDigests(sendMessage) at time t, up to its first send
processCalendarDigests(file, t, z, fails) ==
  LET cal == loadCalendar(file)
      d == [now |-> t, currentTime |-> getTimeStr(z, t), currentDay |-> getDay(z, t),
            todayStr |-> getDateStr(t), zone |-> z, cal |-> cal,
            phase |-> "daily", todo |-> <<>>, saved |-> FALSE]
  IN IF cal.events = <<>> THEN DigestStop(<<>>, file, FALSE)
     ELSE IF isTimeWithinWindow(d.currentTime, cal.digestConfig.dailyTime, DIGEST_WINDOW)
     THEN dailyLoop([d EXCEPT !.todo = JidsOf(collectTodayEvents(cal.events, d.currentDay,
                                                                 d.todayStr))],
                    file, t, fails)
     ELSE weeklyStart(d, file, t, fails)

\* the send to Head(d.todo) settled: lines 263-264 and 300-301 when it
\* resolved, the catch block when it rejected
digestSettle(d, ok) ==
  IF ~ok THEN [d EXCEPT !.todo = Tail(@)]
  ELSE IF d.phase = "daily"
  THEN [d EXCEPT !.cal.lastDailyDigest[Head(d.todo)] = d.now, !.saved = TRUE,
                 !.todo = Tail(@)]
  ELSE [d EXCEPT !.cal.lastWeeklyDigest[Head(d.todo)] = d.now, !.saved = TRUE,
                 !.todo = Tail(@)]

\* processCalendarDigests from the settled send on, at time t
digestResume(d, file, t, fails) ==
  IF d.phase = "daily" THEN dailyLoop(d, file, t, fails)
  ELSE weeklyLoop(d, file, t, fails)

\* how the step of a tick left its digest processing
DigestOutcome(r) ==
  IF r.threw THEN "threw" ELSE IF r.exec # <<>> THEN "await" ELSE "done"

\* steps 3.6 and 4 of the tick; they run when processCalendarDigests has
\* returned, not when it is suspended and not when it threw
TickEnd(r, t) ==
  IF DigestOutcome(r) = "done"
  THEN /\ pendingContactTag' = sweepPendingContactTag(pendingContactTag, t)
       /\ lastResponses' = pruneLastResponses(lastResponses)
  ELSE UNCHANGED <<pendingContactTag, lastResponses>>

(***************************************************************************)
(* Digest runs: the ticks around midnight UTC of a process whose loop      *)
(* runs the digests, in a zone on UTC with digests at 00:00, in a zone     *)
(* seven hours ahead with digests at 07:00, and in a zone five hours       *)
(* behind, where no digest is due.                                         *)
(***************************************************************************)
\* one minute before the end of 1970-01-08 in UTC
DigestEpoch == Thursday8 * DAY_MS + TickEpoch

\* the ticks of a digest run
MaxDigestTicks == 2

\* the digest executions that may be suspended at one time
MaxDigests == 2

NewYork == [offset |-> 0 - 5 * HOUR_MS, shiftAt |-> 0, shift |-> 0]

EventById(id) == CHOOSE e \in EventPool : e.id = id

DigestEventLists ==
  { <<EventById("standup"), EventById("dentist")>>,
    <<EventById("gym"), EventById("launch"), EventById("review")>> }

\* the digest times of a calendar whose owner set them to the start of the
\* day, and the weekly digest to Friday
DigestConfigs(z) ==
  IF z = UTC THEN {[dailyTime |-> HHMM(0, 0), weeklyDay |-> 5, weeklyTime |-> HHMM(0, 0)]}
  ELSE IF z = Jakarta THEN {[dailyTime |-> HHMM(7, 0), weeklyDay |-> 5, weeklyTime |-> HHMM(7, 0)]}
  ELSE {DefaultCalendar.digestConfig}

InitDigest ==
  /\ config = [model |-> DefaultModel, maxTokens |-> 4096, maxHistory |-> 50]
  /\ budget = RouterBudget
  /\ used = 0
  /\ params = NoParams
  /\ tier = "none"
  /\ energy = 100
  /\ stress = 0
  /\ curiosity = 50
  /\ pendingReminders = <<>>
  /\ lastResponses = [k \in 1..(LAST_RESPONSES_LIMIT + 1) |-> [chatId |-> k, text |-> "Hey!"]]
  /\ now = DigestEpoch
  /\ messagesReceived = LAST_RESPONSES_LIMIT + 1
  /\ qr = <<>>
  /\ ran = <<>>
  /\ InitStore
  /\ zone \in {UTC, Jakarta, NewYork}
  /\ \/ calendar = <<>>
     \/ \E events \in DigestEventLists, dc \in DigestConfigs(zone) :
          calendar = <<[DefaultCalendar EXCEPT !.events = events, !.digestConfig = dc]>>
  /\ digestsSent = <<>>
  /\ pendingContactTag =
       setPendingContactTag(
         setPendingContactTag(<<>>, 1, "gym", DigestEpoch + 1 - PENDING_TAG_TTL),
         2, "launch", DigestEpoch)
  /\ collected = <<>>
  /\ digests = <<>>
  /\ driver = [interval |-> 1, started |-> 1, onTick |-> TRUE, onCleanup |-> TRUE]
  /\ intervals = {1}
  /\ ticks = <<>>
  /\ resetAt = getNextMidnight(now, zone)
  /\ delivered = <<>>
  /\ InitPipeline
  /\ op = Op("init", 0, "")

\* the callback of the interval timer of a process without due reminders:
\* runLizardLoop() up to the first send of its digest processing, or to its
\* end; fails says whether the writes of calendar.json fail
DigestLoop(drift, fails) ==
  /\ intervals # {}
  /\ driver.onTick
  /\ now < DigestEpoch + MaxDigestTicks * LIZARD_INTERVAL
  /\ Len(digests) < MaxDigests
  /\ DueReminders(pendingReminders, now + LIZARD_INTERVAL) = <<>>
  /\ \E t \in {now + LIZARD_INTERVAL} :
     \E m \in {regulate(TickState, t, drift)} :
     \E r \in {processCalendarDigests(calendar, t, zone, fails)} :
       /\ now' = t
       /\ energy' = m.energy
       /\ stress' = m.stress
       /\ curiosity' = m.curiosity
       /\ used' = m.used
       /\ resetAt' = m.resetAt
       /\ calendar' = r.file
       /\ digests' = digests \o r.exec
       /\ TickEnd(r, t)
       /\ op' = Op("runLizardLoop", 0, DigestOutcome(r))
  /\ UNCHANGED <<config, budget, params, tier, pendingReminders, messagesReceived,
                 qr, ran, storeVars, pipeVars, zone, digestsSent, collected,
                 driver, intervals, ticks, delivered>>

\* the send awaited by the i-th suspended digest execution settles: the
\* execution goes on to its next send, or to its end and the end of its tick
DigestSent(i, ok, fails) ==
  /\ i \in 1..Len(digests)
  /\ \E d0 \in {digests[i]} :
     \E d1 \in {digestSettle(d0, ok)} :
     \E r \in {digestResume(d1, calendar, now, fails)} :
       /\ digestsSent' = IF ok
                         THEN Append(digestsSent, [jid |-> Head(d0.todo), kind |-> d0.phase,
                                                   at |-> d0.now])
                         ELSE digestsSent
       /\ calendar' = r.file
       /\ digests' = SubSeq(digests, 1, i - 1) \o r.exec \o SubSeq(digests, i + 1, Len(digests))
       /\ TickEnd(r, now)
       /\ op' = Op("digestSent", 0, DigestOutcome(r))
  /\ UNCHANGED <<ladderVars, moodVars, pendingReminders, messagesReceived, qr, ran,
                 now, storeVars, tickVars, pipeVars, zone, collected>>

NextDigest ==
  \/ \E drift \in {0}, fails \in BOOLEAN : DigestLoop(drift, fails)
  \/ \E i \in 1..Len(digests), ok \in BOOLEAN, fails \in BOOLEAN : DigestSent(i, ok, fails)

SpecDigest == InitDigest /\ [][NextDigest]_vars

(***************************************************************************)
(* C13, C15, C18                                                           *)
(***************************************************************************)
\* the day of the local clock at the instant t
LocalDay(z, t) == LocalTime(z, t) \div DAY_MS

\* C13: for every recipient, the digest checks send at most one daily digest
\* per calendar day and at most one weekly digest per 23-hour window.
C13_DigestIdempotence ==
  \A i \in 1..Len(digestsSent), j \in 1..Len(digestsSent) :
    /\ i < j
    /\ digestsSent[i].jid = digestsSent[j].jid
    /\ digestsSent[i].kind = digestsSent[j].kind
    => IF digestsSent[i].kind = "daily"
       THEN LocalDay(zone, digestsSent[i].at) # LocalDay(zone, digestsSent[j].at)
       ELSE Abs(digestsSent[j].at - digestsSent[i].at) >= TWENTY_THREE_HOURS

\* C15: a tick that ran its digest processing from start to end on day D
\* leaves a stored calendar without once events dated before D, with every
\* once event dated D or later and with every daily and weekly event that
\* was stored before the tick.
C15_PurgeOfPastEvents ==
  [][op'.name = "runLizardLoop" /\ op'.text = "done"
     => \E D \in {LocalDay(zone, now')} :
        \E before \in {Range(loadCalendar(calendar).events)} :
        \E after \in {Range(loadCalendar(calendar').events)} :
          /\ \A evt \in after : evt.recurrence = "once" => evt.date >= D
          /\ \A evt \in before :
               evt.recurrence # "once" \/ evt.date >= D => evt \in after]_vars

\* C18: in a tick whose digest step threw, the later steps still run: no
\* pending contact tag that has expired is left, and lastResponses is pruned.
C18_TickStepIsolation ==
  op.name \in {"runLizardLoop", "digestSent"} /\ op.text = "threw"
    => /\ \A k \in 1..Len(pendingContactTag) : ~(now > pendingContactTag[k].expiresAt)
       /\ Len(lastResponses) <= LAST_RESPONSES_LIMIT

(***************************************************************************)
(* Storage probes: loadSession and loadCalendar on files in every state:   *)
(* missing, written by the program, unreadable, garbled, and parseable     *)
(* but no session or calendar. Only as many conversations are loaded as    *)
(* the cache holds.                                                        *)
(***************************************************************************)
StoredSession ==
  [messages |-> <<[role |-> "user", content |-> "m", timestamp |-> 0]>>,
   lastActivity |-> 0]

SessionFiles == {<<>>, <<StoredSession>>} \cup {<<f>> : f \in DamagedFiles}

CalendarFiles ==
  {<<>>, <<[DefaultCalendar EXCEPT !.events = <<EventById("standup")>>]>>}
    \cup {<<f>> : f \in DamagedFiles}

InitStorage ==
  /\ config = [model |-> DefaultModel, maxTokens |-> 4096,
               maxHistory |-> SessionMaxHistory]
  /\ budget = RouterBudget
  /\ used = 0
  /\ params = NoParams
  /\ tier = "none"
  /\ energy = 100
  /\ stress = 0
  /\ curiosity = 50
  /\ pendingReminders = <<>>
  /\ lastResponses = <<>>
  /\ now = StartTime
  /\ messagesReceived = 0
  /\ qr = <<>>
  /\ ran = <<>>
  /\ sessions = <<>>
  /\ disk \in [SessionChatIds -> SessionFiles]
  /\ \A c \in SessionChatIds : c > MAX_CACHED_SESSIONS => disk[c] = <<>>
  /\ pendingSaves = {}
  /\ timers = <<>>
  /\ loaded = EmptySession
  /\ appended = [c \in SessionChatIds |-> <<>>]
  /\ zone = UTC
  /\ calendar \in CalendarFiles
  /\ digestsSent = <<>>
  /\ pendingContactTag = <<>>
  /\ collected = <<>>
  /\ digests = <<>>
  /\ InitTickDriver
  /\ InitPipeline
  /\ op = Op("init", 0, "")

\* loadSession(c), the first statement of addToSession(c, ...) and of
\* getConversationHistory(c)
LoadSession(c) ==
  /\ \E l \in {loadSession(Store, c, now)} :
       /\ SetStore(l.store)
       /\ loaded' = l.session
  /\ op' = Op("loadSession", c, "")
  /\ UNCHANGED <<tickVars, pipeVars, calVars, ladderVars, moodVars, routerVars,
                 now, appended>>

\* loadCalendar(), the first statement of processCalendarDigests and of the
\* calendar commands
LoadCalendar ==
  /\ collected' = <<[calendar |-> loadCalendar(calendar)]>>
  /\ op' = Op("loadCalendar", 0, "")
  /\ UNCHANGED <<tickVars, pipeVars, ladderVars, moodVars, routerVars, storeVars,
                 now, zone, calendar, digestsSent, pendingContactTag, digests>>

NextStorage ==
  \/ \E c \in 1..MAX_CACHED_SESSIONS : LoadSession(c)
  \/ LoadCalendar

SpecStorage == InitStorage /\ [][NextStorage]_vars

(***************************************************************************)
(* C21                                                                     *)
(***************************************************************************)
\* the file holds no session (no calendar) the program wrote
Damaged(file) == file = <<>> \/ file[1] \in DamagedFiles

\* C21: when the session file of a conversation (the calendar file) is
\* missing, unreadable or corrupt, loadSession returns a fresh empty session
\* (loadCalendar the default calendar).
C21_ReadErrorsAreAbsence ==
  [][/\ op'.name = "loadSession" /\ ~CacheHas(sessions, op'.chatId)
        /\ Damaged(disk[op'.chatId])
        => loaded' = [messages |-> <<>>, lastActivity |-> now]
     /\ op'.name = "loadCalendar" /\ Damaged(calendar)
        => collected' = <<[calendar |-> DefaultCalendar]>>]_vars

(***************************************************************************)
(* C22                                                                     *)
(***************************************************************************)
\* the digests the tick of time t has sent
SentBy(sent, t) == {k \in 1..Len(sent) : sent[k].at = t}

\* C22: a step of a tick's digest processing changes the stored calendar only
\* if that tick has sent a digest to a recipient or has purged a once event
\* from the calendar it loaded; otherwise calendar.json stays as it is.
C22_ConditionalPersistence ==
  [][calendar' # calendar
     => \/ /\ op'.name = "runLizardLoop"
           /\ \/ SentBy(digestsSent', now') # {}
              \/ loadCalendar(calendar').events # loadCalendar(calendar).events
        \/ /\ op'.name = "digestSent"
           /\ \E d \in Range(digests) :
                /\ d \notin Range(digests')
                /\ \/ SentBy(digestsSent', d.now) # {}
                   \/ loadCalendar(calendar').events # d.cal.events]_vars

\* a tick whose only digest send was rejected has ended: nothing was sent,
\* nothing was purged, and the stored calendar names no digest as sent
C22_Witness ==
  /\ op.name = "digestSent"
  /\ op.text = "done"
  /\ digestsSent = <<>>
  /\ digests = <<>>
  /\ calendar # <<>>
  /\ calendar[1].events = <<EventById("gym"), EventById("launch"), EventById("review")>>
  /\ \A j \in Jids : calendar[1].lastDailyDigest[j] = 0 /\ calendar[1].lastWeeklyDigest[j] = 0

(***************************************************************************)
(* C23                                                                     *)
(***************************************************************************)
\* the suspended executions whose answer came from the router
QuickAnswered == {i \in 1..Len(inflight) :
                    inflight[i].skippedApi /\ ~isCommand(inflight[i].text)}

\* C23: a message the quick-response router answers causes no provider call
\* and leaves tokens.used as it is: neither the step that takes the answer
\* from the router nor the step that ends the handling after the send.
C23_QuickAnswerIsFree ==
  [][/\ op'.name = "quick"
        => providerCalls' = providerCalls /\ used' = used
     /\ \A i \in QuickAnswered :
          inflight[i] \notin Range(inflight')
            => providerCalls' = providerCalls /\ used' = used]_vars

\* the router answers a message after a provider call has used up the budget
C23_Witness ==
  /\ op.name = "quick"
  /\ reply # NoAnswer
  /\ providerCalls > 0
  /\ used >= budget

(***************************************************************************)
(* Budget runs: messages are handled while the tick timer fires, from two  *)
(* ticks before midnight on, in UTC (midnight falls into the run) and in   *)
(* Jakarta (it does not). The connection is open and the process starts    *)
(* with tokens already spent, so a count of 0 is the work of the reset.    *)
(***************************************************************************)
BudgetInbound == {[text |-> "tell me a story", media |-> "none"]}
BudgetZones == {UTC, Jakarta}

InitBudget ==
  /\ config = [model |-> DefaultModel, maxTokens |-> 4096,
               maxHistory |-> PipelineMaxHistory]
  /\ budget = RouterBudget
  /\ used = 5
  /\ params = NoParams
  /\ tier = "none"
  /\ energy = 100
  /\ stress = 0
  /\ curiosity = 50
  /\ pendingReminders = <<>>
  /\ lastResponses = <<>>
  /\ zone \in BudgetZones
  /\ now = TickEpoch
  /\ messagesReceived = 0
  /\ qr = <<>>
  /\ ran = <<>>
  /\ InitStore
  /\ calendar = <<>>
  /\ digestsSent = <<>>
  /\ pendingContactTag = <<>>
  /\ collected = <<>>
  /\ digests = <<>>
  /\ driver = [interval |-> 1, started |-> 1, onTick |-> FALSE, onCleanup |-> FALSE]
  /\ intervals = {1}
  /\ ticks = <<>>
  /\ resetAt = getNextMidnight(now, zone)
  /\ delivered = <<>>
  /\ InitPipeline
  /\ op = Op("init", 0, "")

NextBudget ==
  \/ RunLizardLoop(0, FALSE)
  \/ \E c \in MessageChatIds, inb \in BudgetInbound, rnd \in MessageDraws :
       ReceiveMessage(c, inb, rnd)
  \/ \E i \in 1..Len(inflight), o \in CreateOutcomes(FALSE, 0) :
       CreateDone(i, o, FALSE, FALSE)
  \/ \E i \in 1..Len(inflight), ok \in BOOLEAN : SendDone(i, ok)
  \/ \E i \in 1..Len(inflight) : ApologyDone(i)
  \/ \E i \in 1..Len(inflight), o \in MemoryOutcomes : FactsDone(i, o)
  \/ \E i \in 1..Len(inflight), o \in MemoryOutcomes : SummaryDone(i, o)

SpecBudget == InitBudget /\ [][NextBudget]_vars

\* the tick's reset: taken at or after resetAt, it zeroes the count and moves
\* resetAt past the tick's own time
TickReset ==
  /\ op'.name = "runLizardLoop"
  /\ now' >= resetAt
  /\ used' = 0
  /\ resetAt' > now'

\* C24: tokens.used never decreases within a budget epoch: every step of the
\* message handling and of the background memory update leaves it equal or
\* larger, and a step that lowers it, or that moves resetAt, is the reset of
\* a tick at or after resetAt, which sets it to 0 and leaves resetAt
\* strictly greater than the time of the tick.
C24_UsedMonotoneInEpoch ==
  [][/\ used' < used => TickReset
     /\ resetAt' # resetAt => TickReset
     /\ op'.name # "runLizardLoop" => used' >= used]_vars

\* a tick has reset a count that provider calls had raised, while a handler
\* is still waiting for its provider call
C24_Witness ==
  /\ op.name = "runLizardLoop"
  /\ used = 0
  /\ providerCalls > 0
  /\ resetAt > now
  /\ \E i \in 1..Len(inflight) : inflight[i].pc = "create"

(***************************************************************************)
(* History runs: the session store runs without /clear, with               *)
(* OPENCLAW_MAX_HISTORY set to 0, to a bound that the second append        *)
(* exceeds, and to one that no conversation of the run exceeds.            *)
(***************************************************************************)
HistoryLimits == {0, SessionMaxHistory, SessionMaxHistory + 1}

InitHistory ==
  /\ config \in {[model |-> DefaultModel, maxTokens |-> 4096, maxHistory |-> n] :
                   n \in HistoryLimits}
  /\ budget = RouterBudget
  /\ used = 0
  /\ params = NoParams
  /\ tier = "none"
  /\ energy = 100
  /\ stress = 0
  /\ curiosity = 50
  /\ pendingReminders = <<>>
  /\ lastResponses = <<>>
  /\ now = StartTime
  /\ messagesReceived = 0
  /\ qr = <<>>
  /\ ran = <<>>
  /\ InitStore
  /\ InitCalendar
  /\ InitTickDriver
  /\ InitPipeline
  /\ op = Op("init", 0, "")

NextHistory ==
  \/ \E c \in Reachable, content \in Contents :
       AddToSession(c, NextRole(c), content)
  \/ \E c \in Reachable : GetConversationHistory(c)
  \/ FlushTimer
  \/ AdvanceClock

SpecHistory == InitHistory /\ [][NextHistory]_vars

\* the n most recently appended messages of a, in the order of their append
MostRecent(a, n) == SubSeq(a, Max(1, Len(a) - n + 1), Len(a))

\* C25: after every addToSession(c, ...) the session of c holds at most
\* maxHistory messages, and they are the most recently appended messages of
\* c in the order in which they were appended.
C25_HistoryBound ==
  [][(op'.name = "addToSession" /\ CacheHas(sessions', op'.chatId))
       => LET held == CacheGet(sessions', op'.chatId).messages
          IN /\ Len(held) <= config.maxHistory
             /\ held = MostRecent(appended'[op'.chatId], config.maxHistory)]_vars

\* the conversations that leave the cache in this step
Evicted == CacheIds(sessions) \ CacheIds(sessions')

ReminderRequests ==
  { [text |-> "remind me in 5 min to call mom", n |-> 5, per |-> 1, task |-> "call mom"],
    [text |-> "remind me in 2 hours to stretch", n |-> 2, per |-> 60, task |-> "stretch"],
    [text |-> "remind me in 0 minutes to stand up", n |-> 0, per |-> 1, task |-> "stand up"],
    [text |-> "remind me in 1 minute to rest", n |-> 1, per |-> 1, task |-> "rest"],
    [text |-> "remind me in 5 minutes to ask what time it is", n |-> 5, per |-> 1,
     task |-> "ask what time it is"] }
IncompleteRequests == {"remind me in 5"}

\* C27: a router call with a text "remind me in N minutes/hours to TASK"
\* appends exactly one reminder for the conversation to the queue, due at
\* now + N minutes (N * 60 minutes for hours) with message TASK; a call with
\* a text that matches "remind me in N" but has no valid unit or task leaves
\* the queue as it is and returns no answer.
C27_ReminderScheduling ==
  [][op'.name = "tryQuickResponse"
       => /\ \A q \in ReminderRequests :
               op'.text = q.text
               => pendingReminders' =
                    Append(pendingReminders,
                           [chatId |-> op'.chatId, message |-> q.task,
                            dueAt |-> now + q.n * q.per * MINUTE_MS,
                            setAt |-> now])
          /\ op'.text \in IncompleteRequests
               => pendingReminders' = pendingReminders /\ qr' = NoAnswer]_vars

\* the router call of this step returned what a quick pattern answered
PatternAnswered ==
  /\ op'.name = "tryQuickResponse"
  /\ ran' # <<>>
  /\ qr' \notin {NoAnswer, ExhaustedMsg, LowMsg, BreathMsg}

\* C28: a call of tryQuickResponse in which a quick pattern produces the
\* answer lowers energy by exactly 1, not below 0, whatever the budget
\* usage; a call that returns no answer leaves energy unchanged.
C28_QuickAnswerEnergy ==
  [][/\ PatternAnswered => energy' = Max(0, energy - 1)
     /\ (op'.name = "tryQuickResponse" /\ qr' = NoAnswer) => energy' = energy]_vars

(***************************************************************************)
(* Contact tag runs: the event commands set a pending tag, a contact       *)
(* message of the conversation consumes it, /skip drops it, the tick       *)
(* sweeps the expired ones, and time passes in steps of one minute.        *)
(***************************************************************************)
\* minutes a run covers
MaxTagMinutes == 3
TagEventIds == {"standup", "gym"}

\* pendingContactTag.get(chatId): <<>> for undefined, else <<entry>>
TagGet(map, chatId) == SelectSeq(map, LAMBDA e : e.chatId = chatId)

\* consumePendingContactTag that leaves the entry it returns in the map
consumePendingContactTagKeeps(map, chatId, t) ==
  LET pending == TagGet(map, chatId) IN
  IF pending = <<>> \/ t > pending[1].expiresAt
  THEN [map |-> SelectSeq(map, LAMBDA e : e.chatId # chatId), result |-> <<>>]
  ELSE [map |-> map, result |-> <<pending[1].eventId>>]

\* consumePendingContactTag(chatId) at time t: the map afterwards and the
\* result (<<>> for null)
consumePendingContactTag(map, chatId, t) ==
  LET pending == TagGet(map, chatId)
      deleted == SelectSeq(map, LAMBDA e : e.chatId # chatId)
  IN IF pending = <<>> \/ t > pending[1].expiresAt
     THEN [map |-> deleted, result |-> <<>>]
     ELSE [map |-> deleted, result |-> <<pending[1].eventId>>]

InitTag ==
  /\ config = [model |-> DefaultModel, maxTokens |-> 4096, maxHistory |-> 50]
  /\ budget = RouterBudget
  /\ used = 0
  /\ params = NoParams
  /\ tier = "none"
  /\ energy = 100
  /\ stress = 0
  /\ curiosity = 50
  /\ pendingReminders = <<>>
  /\ lastResponses = <<>>
  /\ now = StartTime
  /\ messagesReceived = 0
  /\ qr = <<>>
  /\ ran = <<>>
  /\ InitStore
  /\ InitCalendar
  /\ InitTickDriver
  /\ InitPipeline
  /\ op = Op("init", 0, "")

TagFrame ==
  UNCHANGED <<tickVars, pipeVars, ladderVars, moodVars, routerVars, storeVars,
              zone, calendar, digestsSent, digests>>

\* an /event command that asks for contacts: setPendingContactTag(c, id)
SetPendingContactTag(c, id) ==
  /\ pendingContactTag' = setPendingContactTag(pendingContactTag, c, id, now)
  /\ collected' = <<>>
  /\ op' = Op("setPendingContactTag", c, id)
  /\ UNCHANGED now
  /\ TagFrame

\* a contact message of the conversation: consumePendingContactTag(c)
ConsumePendingContactTag(c) ==
  /\ \E r \in {consumePendingContactTag(pendingContactTag, c, now)} :
       /\ pendingContactTag' = r.map
       /\ collected' = <<[chatId |-> c, result |-> r.result]>>
  /\ op' = Op("consumePendingContactTag", c, "")
  /\ UNCHANGED now
  /\ TagFrame

\* the /skip command
SkipContactTag(c) ==
  /\ pendingContactTag' = SelectSeq(pendingContactTag, LAMBDA e : e.chatId # c)
  /\ collected' = <<>>
  /\ op' = Op("skip", c, "")
  /\ UNCHANGED now
  /\ TagFrame

\* step 3.6 of a tick
SweepContactTags ==
  /\ pendingContactTag' = sweepPendingContactTag(pendingContactTag, now)
  /\ collected' = <<>>
  /\ op' = Op("sweep", 0, "")
  /\ UNCHANGED now
  /\ TagFrame

\* a minute passes
TagMinute ==
  /\ now < StartTime + MaxTagMinutes * MINUTE_MS
  /\ now' = now + MINUTE_MS
  /\ collected' = <<>>
  /\ op' = Op("clock", 0, "")
  /\ UNCHANGED pendingContactTag
  /\ TagFrame

NextTag ==
  \/ \E c \in ChatIds, id \in TagEventIds : SetPendingContactTag(c, id)
  \/ \E c \in ChatIds : ConsumePendingContactTag(c)
  \/ \E c \in ChatIds : SkipContactTag(c)
  \/ SweepContactTags
  \/ TagMinute

SpecTag == InitTag /\ [][NextTag]_vars

\* C29: setPendingContactTag stores the event id with an expiry 120 s after
\* the call; consumePendingContactTag(chat) returns the stored event id
\* exactly when the chat has an entry whose expiresAt the current time is
\* not past, and null otherwise; in every case the chat has no entry
\* afterwards, and the entries of the other chats are untouched.
C29_OneShotTag ==
  [][/\ op'.name = "setPendingContactTag"
          => TagGet(pendingContactTag', op'.chatId) =
               <<[chatId |-> op'.chatId, eventId |-> op'.text,
                  expiresAt |-> now + 120000]>>
     /\ op'.name = "consumePendingContactTag"
          => LET stored == TagGet(pendingContactTag, op'.chatId) IN
             /\ collected'[1].result =
                  (IF stored # <<>> /\ now <= stored[1].expiresAt
                   THEN <<stored[1].eventId>> ELSE <<>>)
             /\ TagGet(pendingContactTag', op'.chatId) = <<>>
             /\ \A c \in ChatIds \ {op'.chatId} :
                  TagGet(pendingContactTag', c) = TagGet(pendingContactTag, c)]_vars

\* two minutes into the run a consume returns the event id of a tag that
\* has not expired, while the other chat's tag stays
C29_Witness ==
  /\ op.name = "consumePendingContactTag"
  /\ collected = <<[chatId |-> op.chatId, result |-> <<"gym">>]>>
  /\ now = StartTime + 2 * MINUTE_MS
  /\ Len(pendingContactTag) = 1
  /\ pendingContactTag[1].expiresAt > now

\* this step is the end of a tick: its digest step returned or threw
TickEnds ==
  /\ op'.name \in {"runLizardLoop", "digestSent"}
  /\ op'.text \in {"done", "threw"}

\* C30: at the end of every tick lastResponses has at most 100 entries; a
\* tick that finds more than 100 leaves exactly the 50 most recently
\* inserted ones, in their order.
C30_LastResponsesBounded ==
  [][TickEnds
       => /\ Len(lastResponses') <= 100
          /\ Len(lastResponses) > 100
               => lastResponses' = SubSeq(lastResponses, Len(lastResponses) - 49,
                                          Len(lastResponses))]_vars

(***************************************************************************)
(* C31 - C40                                                               *)
(***************************************************************************)
\* C31: after any number of startLizardLoop calls exactly one interval
\* timer is registered, the one of the last call; before the first call
\* there is none.
C31_SingleDriverTimer ==
  IF driver.started = 0 THEN intervals = {}
  ELSE intervals = {driver.interval} /\ driver.interval = driver.started

\* the connection has opened a second time while a tick started by the
\* first timer is still suspended
C31_Witness ==
  /\ op.name = "startLizardLoop"
  /\ driver.started = MaxStarts
  /\ Cardinality(intervals) = 1
  /\ ticks # <<>>

\* C32: under every interleaving of appends, evictions and flushes, the
\* session that loadSession returns for a conversation (to
\* getConversationHistory, and to addToSession before its push) holds
\* every message appended since the last clear, up to the last maxHistory.
C32_NoLostAppends ==
  [][op'.name \in {"getConversationHistory", "addToSession"}
       => loaded'.messages = Retained(op'.chatId)]_vars

\* C33: once every scheduled flush timer has fired, the file of each
\* conversation that was appended to (and not cleared since) holds what the
\* session in memory holds, also when the session was evicted and reloaded
\* while a flush was pending.
C33_EventualPersistence ==
  timers = <<>>
    => \A c \in CacheIds(sessions) :
         appended[c] # <<>>
           => /\ disk[c] # <<>>
              /\ disk[c][1].messages = CacheGet(sessions, c).messages

\* C34: at no time are two flush timers outstanding for one conversation.
C34_OneTimerPerConversation ==
  \A c \in SessionChatIds :
    Cardinality({i \in 1..Len(timers) : timers[i].chatId = c}) <= 1

\* C35: when loadSession(id) (called by getConversationHistory) or
\* addToSession(id, ...) returns, id is in the cache.
C35_AccessedStaysCached ==
  [][op'.name \in {"getConversationHistory", "addToSession"}
       => CacheHas(sessions', op'.chatId)]_vars

\* C36: no call of client.messages.create is started while tokens.used >=
\* budget: not the main call of chat(), not a follow-up call of the tool-use
\* loop, not the calls of extractFacts and summarizeConversation.
C36_NoCallWhenExhausted ==
  [][providerCalls' > providerCalls => used' < budget]_vars

(***************************************************************************)
(* Command runs: the digest runs, with an operator who sends               *)
(* "/event add daily 06:00 retro" once, at any moment: between ticks or    *)
(* while a tick's digest processing is suspended at a send.                *)
(***************************************************************************)
Retro == Event("retro", "daily", NoDay, HHMM(6, 0), NoDate, <<>>)

\* handleCommand, case "event", "add daily": loadCalendar, push, saveCalendar
\* and setPendingContactTag
EventAddDaily(c) ==
  /\ collected = <<>>
  /\ \E cal \in {loadCalendar(calendar)} :
       calendar' = <<[cal EXCEPT !.events = Append(@, Retro)]>>
  /\ pendingContactTag' = setPendingContactTag(pendingContactTag, c, Retro.id, now)
  /\ collected' = <<[added |-> Retro.id, during |-> Len(digests)]>>
  /\ op' = Op("event", c, "add daily")
  /\ UNCHANGED <<tickVars, pipeVars, ladderVars, moodVars, routerVars, storeVars,
                 now, zone, digestsSent, digests>>

NextCommand ==
  \/ \E drift \in {0}, fails \in BOOLEAN : DigestLoop(drift, fails)
  \/ \E i \in 1..Len(digests), ok \in BOOLEAN, fails \in BOOLEAN : DigestSent(i, ok, fails)
  \/ \E c \in MessageChatIds : EventAddDaily(c)

SpecCommand == InitDigest /\ [][NextCommand]_vars

\* the events of calendar.json
StoredEvents == IF calendar = <<>> THEN <<>> ELSE calendar[1].events

\* C37: an event added by a command stays in calendar.json, whatever the
\* ticks do afterwards, also when the command ran while a tick's digest
\* processing was suspended at a send.
C37_NoLostCalendarUpdate ==
  collected # <<>>
    => \E k \in 1..Len(StoredEvents) : StoredEvents[k].id = collected[1].added

\* the reminders that are in the queue before this step and not after it
LeftQueue ==
  {pendingReminders[k] : k \in 1..Len(pendingReminders)}
    \ {pendingReminders'[k] : k \in 1..Len(pendingReminders')}

\* C38: every reminder that leaves the queue had a delivery attempt first,
\* also one that message handling enqueued while a tick was suspended at
\* the delivery of another reminder.
C38_NoReminderDroppedUnsent ==
  [][\A r \in LeftQueue : \E k \in 1..Len(delivered') : delivered'[k] = r]_vars


(***************************************************************************)
(* C39: the ladder against the configured limits                           *)
(***************************************************************************)
\* C39: the maxHistory and maxTokens returned by getBudgetAwareParams are at
\* most the configured maxHistory and maxTokens, and from one budget state to
\* another with the same budget and used not smaller they do not increase.
C39_LadderOnlyTightens ==
  [][ op'.name = "getBudgetAwareParams" =>
        /\ params'.maxHistory <= config.maxHistory
        /\ params'.maxTokens <= config.maxTokens
        /\ (Probed /\ budget' = budget /\ used' >= used) =>
             /\ params'.maxHistory <= params.maxHistory
             /\ params'.maxTokens <= params.maxTokens ]_vars


(***************************************************************************)
(* C40: the daily digest in a tolerance window                             *)
(***************************************************************************)
\* the instant of the local clock at which the tolerance window holding the
\* local instant lt is centred: the nearest instant whose time is dailyTime
WindowCentre(lt, dailyTime) ==
  LET tod == lt % DAY_MS
      target == dailyTime * MINUTE_MS
      sameDay == lt - tod + target
  IN IF tod - target > DAY_MS \div 2 THEN sameDay + DAY_MS
     ELSE IF target - tod > DAY_MS \div 2 THEN sameDay - DAY_MS
     ELSE sameDay

\* the events tagged for jid that are due on the day of the local instant c
DueOnDayOf(events, jid, c) ==
  {evt \in Range(events) :
     /\ jid \in Range(evt.taggedUsers)
     /\ isToday(evt, (c \div DAY_MS + EpochWeekday) % 7, c \div DAY_MS)}

\* the events the digest execution d lists for the recipient it is sending to
ListedFor(d) ==
  UNION {Range(e.events) :
           e \in {x \in Range(collectTodayEvents(d.cal.events, d.currentDay, d.todayStr)) :
                    x.jid = Head(d.todo)}}

\* C40: a daily digest that is sent is the first one its recipient receives
\* in the tolerance window it is sent in, also when the window spans the
\* change of date, and it lists the events due on the day the configured
\* dailyTime of that window falls in.
C40_OneDigestPerWindow ==
  [][ ( /\ Len(digestsSent') = Len(digestsSent) + 1
        /\ digestsSent'[Len(digestsSent')].kind = "daily" )
      => \E s \in {digestsSent'[Len(digestsSent')]} :
         \E d \in {x \in Range(digests) : x.now = s.at /\ x.phase = "daily"} :
         \E c \in {WindowCentre(LocalTime(zone, s.at), d.cal.digestConfig.dailyTime)} :
           /\ \A k \in 1..Len(digestsSent) :
                digestsSent[k].jid = s.jid /\ digestsSent[k].kind = "daily"
                  => WindowCentre(LocalTime(zone, digestsSent[k].at),
                                  d.cal.digestConfig.dailyTime) # c
           /\ ListedFor(d) = DueOnDayOf(d.cal.events, s.jid, c) ]_vars

====
